---- MODULE Spec2Model ----
(***************************************************************************)
(* Model of the orchestration core of prakashuit/artifacts:                *)
(*   - the streaming ReAct agent (StreamingReactServiceAgent) and the      *)
(*     ServiceManager of agentic_service_router_streaming_summary.py, and  *)
(*   - the planning, execution and summarization nodes and the ApiRegistry *)
(*     of api-selector/app-check.py.                                       *)
(* Text values are strings; messages built by f-strings are sequences of   *)
(* their pieces, so that "the message contains the name" is checkable.     *)
(***************************************************************************)
EXTENDS Integers, Sequences, FiniteSets, TLC

VARIABLES
    services,           \* ServiceManager.services, in insertion order
    max_steps,          \* StreamingReactServiceAgent.max_steps
    current_trace,      \* StreamingReactServiceAgent.current_trace
    execution_results,  \* StreamingReactServiceAgent.execution_results
    event_queue,        \* StreamingReactServiceAgent.event_queue
    step_count,         \* local of process_prompt_streaming
    observations,       \* local: the observation blocks appended to the prompt text
    response,           \* local: raw planner response of the current iteration
    action,             \* local: parsed action label of the current iteration
    action_input,       \* local: parsed action input of the current iteration
    pending,            \* the HTTP request in flight (execute_service)
    pc,                 \* position inside process_prompt_streaming
    returned,           \* what the last call of process_prompt_streaming returned
    caught,             \* the exception text caught by the handler around the loop
    runs,               \* number of calls of process_prompt_streaming so far
    run_base,           \* length of event_queue when the current run started
    planner_calls,      \* planner (LLM) invocations made by the current run
    http_log,           \* HTTP requests issued by the current run, with how each ended
    summary_prompts,    \* _generate_summary: the data put in each prompt sent to the LLM
    react_prompts,      \* _create_react_prompt: the observations put in each planner prompt
    events_log,         \* render_streaming_executor: events seen by the consumer
    ui_status,          \* render_streaming_executor: where the consumer stands
    apis,               \* ApiRegistry.apis
    plan,               \* execution_node: state["plan"]
    node_results,       \* execution_node: its local list execution_results
    step_outputs,       \* execution_node: outputs of the successful steps, by step number
    resolved_inputs,    \* execution_node: inputs resolved for the step under way
    plan_idx,           \* execution_node: position of the for loop in the plan
    plan_pc,            \* position of the api-selector session: node and place in it
    plan_http,          \* execution_node: HTTP requests issued, by plan position
    state,              \* AgentState: plan_reasoning, error, final_summary
    llm_log,            \* llm_chat: the calls made, with what each returned
    op_log              \* the registry operations the session made, with what each returned

vars == << services, max_steps, current_trace, execution_results, event_queue,
           step_count, observations, response, action, action_input, pending,
           pc, returned, caught, runs, run_base, planner_calls, http_log,
           summary_prompts, react_prompts, events_log, ui_status, apis, plan, node_results, step_outputs,
           resolved_inputs, plan_idx, plan_pc, plan_http, state, llm_log, op_log >>

agent_vars == << services, max_steps, current_trace, execution_results, event_queue,
                 step_count, observations, response, action, action_input, pending,
                 pc, returned, caught, runs, run_base, planner_calls,
                 http_log, summary_prompts, react_prompts, events_log, ui_status >>

plan_vars == << apis, plan, node_results, step_outputs, resolved_inputs, plan_idx,
                plan_pc, plan_http, state, llm_log, op_log >>

\* what an operation on the service registry leaves alone
service_op_frame ==
    << max_steps, current_trace, execution_results, event_queue, step_count,
       observations, response, action, action_input, pending, pc, returned, caught,
       runs, run_base, planner_calls, http_log, summary_prompts, react_prompts,
       events_log, ui_status, apis, plan, node_results, step_outputs, resolved_inputs, plan_idx, plan_pc,
       plan_http, state, llm_log >>

\* what an operation on the API registry leaves alone
api_op_frame ==
    << plan, node_results, step_outputs, resolved_inputs, plan_idx, plan_pc, plan_http,
       state, llm_log >>

-----------------------------------------------------------------------------
(* Bounds *)

MaxBudget == 4
MaxRuns == 2
\* a further run is started only while the event queue holds at most this many events
MaxBacklog == 3
MaxPlanLen == 2
MaxOps == 2

-----------------------------------------------------------------------------
(* Values *)

None == "<None>"
Absent == "<absent>"
NoText == << >>

JNull == [kind |-> "null"]
JObj(f) == [kind |-> "obj", val |-> f]
JStr(t) == [kind |-> "str", val |-> t]
JNum(n) == [kind |-> "num", num |-> n]
JList(items) == [kind |-> "list", items |-> items]

EmptyDict == [k \in {} |-> None]

\* the fields of the state dict the session creates, other than the plan and
\* the execution results; error None is the empty message
InitialState == [plan_reasoning |-> "", error |-> NoText, final_summary |-> ""]

\* str.lower() on the names the model uses
Lower(s) ==
    CASE s = "User Service" -> "user service"
      [] s = "USER SERVICE" -> "user service"
      [] s = "Legacy" -> "legacy"
      [] s = "Ghost" -> "ghost"
      [] s = "Accounts" -> "accounts"
      [] s = "TRADE_API" -> "trade_api"
      [] OTHER -> s

\* str.upper().replace("-", "_") on the action labels the model uses
UpperUnderscore(s) ==
    CASE s = "execute_service" -> "EXECUTE_SERVICE"
      [] s = "Execute-Service" -> "EXECUTE_SERVICE"
      [] s = "final-answer" -> "FINAL_ANSWER"
      [] s = "analyze_result" -> "ANALYZE_RESULT"
      [] s = "reboot" -> "REBOOT"
      [] OTHER -> s

ActionTypeMembers ==
    {"EXECUTE_SERVICE", "ANALYZE_RESULT", "COMBINE_RESULTS", "EXTRACT_PARAMS"}

ActionTypeOf(a) ==
    IF UpperUnderscore(a) \in ActionTypeMembers THEN UpperUnderscore(a) ELSE None

-----------------------------------------------------------------------------
(* Service registry of the ReAct agent *)

\* ServiceConfig.headers: None, or a dict of header names and values
NoHeaders == [kind |-> "none"]
Headers(f) == [kind |-> "dict", val |-> f]

UserService ==
    [id |-> "user_service", name |-> "User Service", http_type |-> "GET",
     input_params |-> {"id"}, output_params |-> {"id", "name"},
     headers |-> NoHeaders, auth_token |-> None]

LegacyService ==
    [id |-> "legacy_service", name |-> "Legacy", http_type |-> "PATCH",
     input_params |-> {"id"}, output_params |-> {},
     headers |-> NoHeaders, auth_token |-> None]

\* configurations with the other verbs, with headers and with a bearer token
SecuredService ==
    [id |-> "user_service", name |-> "User Service", http_type |-> "POST",
     input_params |-> {"id"}, output_params |-> {},
     headers |-> Headers([Accept |-> << "application/json" >>]), auth_token |-> "tok"]

ArchiveService ==
    [id |-> "legacy_service", name |-> "Legacy", http_type |-> "PUT",
     input_params |-> {"id"}, output_params |-> {},
     headers |-> NoHeaders, auth_token |-> "tok"]

PurgeService ==
    [id |-> "user_service", name |-> "User Service", http_type |-> "DELETE",
     input_params |-> {"id"}, output_params |-> {"id", "name"},
     headers |-> Headers(EmptyDict), auth_token |-> None]

Registries ==
    { << >>, << UserService >>, << UserService, LegacyService >>,
      << SecuredService, ArchiveService >>, << PurgeService >> }

NoService == [id |-> None, name |-> None, http_type |-> None,
              input_params |-> {}, output_params |-> {},
              headers |-> NoHeaders, auth_token |-> None]

\* ServiceManager.get_service
get_service(svcs, service_id) ==
    IF \E i \in 1..Len(svcs) : svcs[i].id = service_id
    THEN svcs[CHOOSE i \in 1..Len(svcs) : svcs[i].id = service_id]
    ELSE NoService

\* ServiceManager.get_service_by_name: None.lower() raises once a service is compared
get_service_by_name_raises(svcs, name) == Len(svcs) > 0 /\ name = None

get_service_by_name(svcs, name) ==
    LET hits == { i \in 1..Len(svcs) : Lower(svcs[i].name) = Lower(name) }
    IN  IF hits = {} THEN NoService
        ELSE svcs[CHOOSE i \in hits : \A j \in hits : i <= j]

SupportedVerbs == {"GET", "POST", "PUT", "DELETE"}

\* headers = service.headers or {}: the descriptor's own dict unless it is
\* None or empty
SharesHeaders(service) ==
    service.headers.kind = "dict" /\ service.headers.val # EmptyDict

\* lines 211-214: the headers sent with the request
RequestHeaders(service) ==
    LET headers == IF SharesHeaders(service) THEN service.headers.val ELSE EmptyDict
    IN  IF service.auth_token \notin {None, ""}
        THEN ("Authorization" :> << "Bearer ", service.auth_token >>) @@ headers
        ELSE headers

\* the registry after lines 211-214: the token is written into the dict the
\* descriptor holds when that is the dict sent
ExecuteServiceHeaders(svcs, service_id) ==
    [i \in 1..Len(svcs) |->
        IF svcs[i].id = service_id /\ SharesHeaders(svcs[i])
        THEN [svcs[i] EXCEPT !.headers = Headers(RequestHeaders(svcs[i]))]
        ELSE svcs[i]]

\* bug: the response object is returned as received
ProjectNothing(service, body) == body

\* the projection of a response object on the declared outputs
Project(service, body) ==
    IF service.output_params # {}
    THEN [k \in (DOMAIN body) \cap service.output_params |-> body[k]]
    ELSE body

ExecutionResult(name, status, data, error) ==
    [service_name |-> name, status |-> status, data |-> data, error |-> error]

\* where the request carries its payload: params= or json=, or neither
RequestChannel(service) ==
    CASE service.http_type = "GET" -> "query"
      [] service.http_type = "DELETE" -> "none"
      [] OTHER -> "body"

\* the query string of a GET, the body of POST and PUT, nothing for DELETE
RequestPayload(service, params) ==
    CASE service.http_type = "GET" ->
            [k \in (DOMAIN params) \cap service.input_params |-> params[k]]
      [] service.http_type = "DELETE" -> EmptyDict
      [] OTHER -> params

\* outcomes of one HTTP request: a 2xx response whose body is a JSON object, an
\* array of objects, a number, an array of numbers or not JSON at all, and the
\* exceptions requests raises (the URL is rejected before anything is sent)
OkOutcomes == {"ok", "ok_list", "ok_scalar", "ok_scalar_list"}
HttpOutcomes == OkOutcomes \cup {"not_json", "timeout", "connection", "http_error",
                                 "invalid_url"}

ResponseBody == [id |-> 1, name |-> "Ann", secret |-> "s"]
OtherBody == [id |-> 2, secret |-> "t"]

\* response.json() of a 2xx response
ResponseJson(outcome) ==
    CASE outcome = "ok" -> JObj(ResponseBody)
      [] outcome = "ok_list" -> JList(<< JObj(ResponseBody), JObj(OtherBody) >>)
      [] outcome = "ok_scalar" -> JNum(5)
      [] outcome = "ok_scalar_list" -> JList(<< JNum(1) >>)

\* the class of the error response.json() raises on a body that is not JSON:
\* requests.exceptions.JSONDecodeError from requests 2.27 on (a
\* RequestException, and a json.JSONDecodeError unless simplejson is
\* installed), a plain ValueError of the json module before
DecodeErrorClasses == {"requests_json", "requests_simplejson", "json_value_error"}

DecodeClassesOf(outcome) ==
    IF outcome = "not_json" THEN DecodeErrorClasses ELSE {"requests_json"}

\* str(e) of the requests exception
RequestErrorText(outcome) ==
    CASE outcome = "timeout" -> << "Read timed out" >>
      [] outcome = "connection" -> << "Connection refused" >>
      [] outcome = "http_error" -> << "500 Server Error" >>
      [] outcome = "invalid_url" -> << "Invalid URL: No scheme supplied" >>
      [] outcome = "not_json" -> << "Expecting value: line 1 column 1 (char 0)" >>
      [] OTHER -> NoText

\* item.items() / data.items(): defined on objects only
HasItems(value) == value.kind = "obj"

\* the comprehension over data raises AttributeError
filtered_data_raises(service, data) ==
    /\ service.output_params # {}
    /\ IF data.kind = "list"
       THEN \E i \in 1..Len(data.items) : ~HasItems(data.items[i])
       ELSE ~HasItems(data)

\* lines 236-246: the projection of the decoded body on the declared outputs
filtered_data(service, data) ==
    IF service.output_params = {} THEN data
    ELSE IF data.kind = "list"
         THEN JList([i \in 1..Len(data.items) |-> JObj(Project(service, data.items[i].val))])
         ELSE JObj(Project(service, data.val))

\* the exception that leaves execute_service: only RequestException is caught
execute_service_raises(service, outcome, cls) ==
    \/ outcome \in OkOutcomes /\ filtered_data_raises(service, ResponseJson(outcome))
    \/ outcome = "not_json" /\ cls = "json_value_error"

\* str(e) of the exception that leaves execute_service
EscapedErrorText(outcome) ==
    CASE outcome = "ok_scalar" -> << "'int' object has no attribute 'items'" >>
      [] outcome = "ok_scalar_list" -> << "'int' object has no attribute 'items'" >>
      [] OTHER -> RequestErrorText(outcome)

\* ServiceManager.execute_service after the request returned or raised, when
\* it returns
execute_service_result(service, outcome) ==
    IF outcome \in OkOutcomes
    THEN ExecutionResult(service.name, "success",
                         filtered_data(service, ResponseJson(outcome)), NoText)
    ELSE ExecutionResult(service.name, "error", JNull, RequestErrorText(outcome))

unsupported_result(service) ==
    ExecutionResult(service.name, "error", JNull,
                    << "Unsupported HTTP method: ", service.http_type >>)

-----------------------------------------------------------------------------
(* Planner responses and their parsing *)

NoInputObj == [service_name |-> Absent, params |-> EmptyDict,
               analysis |-> Absent, answer |-> Absent]

InputObj(f) == f @@ NoInputObj

\* the Action Input of a raw response: whether a brace span follows the label,
\* whether the text holds a closing brace before the end of the object (a
\* nested object such as "params": {...}), whether the object is valid JSON,
\* and the object written by the planner
InputText(matched, inner_brace, valid, obj) ==
    [matched |-> matched, inner_brace |-> inner_brace, valid |-> valid, obj |-> obj]

NoInputText == InputText(FALSE, FALSE, FALSE, NoInputObj)

\* a raw response: the text of its Thought and Action sections (None when the
\* label does not occur) and its Action Input
Resp(thought, act, input) == [thought |-> thought, action |-> act, input |-> input]

Responses ==
    { Resp("t1", "EXECUTE_SERVICE",
           InputText(TRUE, FALSE, TRUE, InputObj([service_name |-> "user service"]))),
      Resp("t2", "EXECUTE_SERVICE",
           InputText(TRUE, TRUE, TRUE,
                     InputObj([service_name |-> "User Service", params |-> [id |-> 1]]))),
      Resp("t3", "EXECUTE_SERVICE",
           InputText(TRUE, FALSE, TRUE, InputObj([service_name |-> "Ghost"]))),
      Resp("t4", "EXECUTE_SERVICE",
           InputText(TRUE, FALSE, TRUE, InputObj([service_name |-> "Legacy"]))),
      Resp("t5", "ANALYZE_RESULT",
           InputText(TRUE, FALSE, TRUE, InputObj([analysis |-> "looks fine"]))),
      Resp("t6", "FINAL_ANSWER",
           InputText(TRUE, FALSE, TRUE, InputObj([answer |-> "42"]))),
      Resp("t7", "FINAL_ANSWER", NoInputText),
      Resp("t8", "final-answer",
           InputText(TRUE, FALSE, TRUE, InputObj([answer |-> "42"]))),
      Resp("t9", "reboot", InputText(TRUE, FALSE, FALSE, NoInputObj)),
      Resp("t10", None, NoInputText),
      Resp("t11", "FINAL_ANSWER",
           InputText(TRUE, FALSE, TRUE, InputObj([answer |-> None]))),
      Resp(None, "", NoInputText) }

NoResponse == Resp(None, None, NoInputText)

\* the parsed action input: None, the decoded object, or {"raw": text}
NoneInput == [is_none |-> TRUE, raw |-> FALSE, obj |-> NoInputObj]

\* the span the pattern \{.+?\} captures ends at the first closing brace: it
\* is the whole object only when no closing brace occurs inside it
SpanDecodes(input) == input.valid /\ ~input.inner_brace

\* StreamingReactServiceAgent._parse_agent_response
parse_agent_response(r) ==
    [thought |-> r.thought,
     action |-> r.action,
     action_input |->
        IF ~r.input.matched THEN NoneInput
        ELSE IF SpanDecodes(r.input)
             THEN [is_none |-> FALSE, raw |-> FALSE, obj |-> r.input.obj]
             ELSE [is_none |-> FALSE, raw |-> TRUE, obj |-> NoInputObj]]

\* dict.get(key, default)
Get(obj, key, default) ==
    IF key \in DOMAIN obj /\ obj[key] # Absent THEN obj[key] ELSE default

\* dict.get(key)
GetOrNone(obj, key) == Get(obj, key, None)

\* bug: "if action is not None" lets an empty label through
TruthyNotNone(a) == a # None

\* Python truthiness of the parsed action label
Truthy(a) == a # None /\ a # ""

LlmErrors == {"LLM unavailable", "rate limit exceeded"}

-----------------------------------------------------------------------------
(* Trace, steps, events *)

NoTrace ==
    [user_prompt |-> None, steps |-> << >>, final_answer |-> None, summary |-> None,
     total_steps |-> 0, status |-> "absent", error |-> NoText]

\* OrchestrationTrace(user_prompt=...)
OrchestrationTrace(prompt) ==
    [user_prompt |-> prompt, steps |-> << >>, final_answer |-> None, summary |-> None,
     total_steps |-> 0, status |-> "pending", error |-> NoText]

NoActionResult ==
    [status |-> None, error |-> NoText, service |-> Absent, data |-> JNull,
     analysis |-> Absent, final_answer |-> Absent]

ActionResult(f) == f @@ NoActionResult

NoStepAction == [type |-> None, input |-> NoneInput]

\* OrchestrationStep(...)
OrchestrationStep(n, type, status) ==
    [step_number |-> n, step_type |-> type, action_type |-> None, reasoning |-> None,
     action |-> NoStepAction, observation |-> NoActionResult,
     result |-> NoActionResult, status |-> status]

\* OrchestrationTrace.add_step
add_step(trace, step) ==
    [trace EXCEPT !.steps = Append(@, step), !.total_steps = Len(trace.steps) + 1]

\* StreamEvent(...)
StreamEvent(type, n, content) ==
    [event_type |-> type, step_number |-> n, content |-> content]

\* bug: error events are logged but not put on the queue
emit_event_but_errors(queue, event) ==
    IF event.event_type = "error" THEN queue ELSE Append(queue, event)

\* StreamingReactServiceAgent._emit_event
emit_event(queue, event) == Append(queue, event)

\* bug: the budget test lets one more iteration through
LoopGuardInclusive(count, budget) == count <= budget

\* the while condition of process_prompt_streaming
LoopGuard(count, budget) == count < budget

\* bug: the iteration advances past the action step only
AdvanceStepCountByOne(count) == count + 1

\* step_count += 2 at the end of an iteration
AdvanceStepCount(count) == count + 2

\* the events emitted by the current run
RunEvents == SubSeq(event_queue, run_base + 1, Len(event_queue))

-----------------------------------------------------------------------------
(* process_prompt_streaming *)

\* the plan executor before execution_node is entered
PlanIdle ==
    /\ apis = EmptyDict
    /\ plan = << >>
    /\ node_results = << >>
    /\ step_outputs = EmptyDict
    /\ resolved_inputs = EmptyDict
    /\ plan_idx = 0
    /\ plan_pc = "off"
    /\ plan_http = << >>
    /\ state = InitialState
    /\ llm_log = << >>
    /\ op_log = << >>

\* StreamingReactServiceAgent(service_manager, api_key, max_steps)
AgentInit ==
    /\ services \in Registries
    /\ max_steps \in 0..MaxBudget
    /\ current_trace = NoTrace
    /\ execution_results = EmptyDict
    /\ event_queue = << >>
    /\ step_count = 0
    /\ observations = << >>
    /\ response = NoResponse
    /\ action = None
    /\ action_input = NoneInput
    /\ pending = NoService
    /\ pc = "idle"
    /\ returned = None
    /\ caught = None
    /\ runs = 0
    /\ run_base = 0
    /\ planner_calls = 0
    /\ http_log = << >>
    /\ summary_prompts = << >>
    /\ react_prompts = << >>
    /\ events_log = << >>
    /\ ui_status = "idle"
    /\ PlanIdle

\* render_streaming_executor calls process_prompt_streaming, which runs up to
\* the loop head
BeginRun ==
    /\ pc \in {"idle", "done"}
    /\ ui_status # "calling"
    /\ runs < MaxRuns
    /\ Len(event_queue) <= MaxBacklog
    /\ runs' = runs + 1
    /\ current_trace' = [OrchestrationTrace("q") EXCEPT !.status = "in_progress"]
    /\ execution_results' = EmptyDict
    /\ step_count' = 0
    /\ observations' = << >>
    /\ response' = NoResponse
    /\ action' = None
    /\ action_input' = NoneInput
    /\ pending' = NoService
    /\ returned' = None
    /\ caught' = None
    /\ run_base' = Len(event_queue)
    /\ planner_calls' = 0
    /\ http_log' = << >>
    /\ summary_prompts' = << >>
    /\ react_prompts' = << >>
    /\ events_log' = << >>
    /\ ui_status' = "calling"
    /\ pc' = "while"
    /\ UNCHANGED plan_vars
    /\ UNCHANGED << services, max_steps, event_queue >>

\* _create_react_prompt: the parts of the prompt that vary
create_react_prompt(user_prompt, text) == [user_prompt |-> user_prompt, observations |-> text]

\* one more iteration: step_started, the reasoning step, the prompt
IterStart ==
    /\ pc = "while"
    /\ LoopGuard(step_count, max_steps)
    /\ step_count' = step_count + 1
    /\ event_queue' = emit_event(event_queue,
                                 StreamEvent("step_started", step_count + 1, << "thinking" >>))
    /\ current_trace' = add_step(current_trace,
                                 OrchestrationStep(step_count + 1, "reasoning", "in_progress"))
    /\ planner_calls' = planner_calls + 1
    /\ react_prompts' = Append(react_prompts, create_react_prompt("q", observations))
    /\ pc' = "llm"
    /\ UNCHANGED summary_prompts
    /\ UNCHANGED plan_vars
    /\ UNCHANGED << services, max_steps, execution_results, observations, response,
                    action, action_input, pending, returned, caught, runs, run_base,
                    http_log, events_log, ui_status >>

\* the step budget is used up
LoopExit ==
    /\ pc = "while"
    /\ ~LoopGuard(step_count, max_steps)
    /\ pc' = "post"
    /\ UNCHANGED summary_prompts
    /\ UNCHANGED plan_vars
    /\ UNCHANGED react_prompts
    /\ UNCHANGED << services, max_steps, current_trace, execution_results, event_queue,
                    step_count, observations, response, action, action_input, pending,
                    returned, caught, runs, run_base, planner_calls, http_log, events_log,
                    ui_status >>

\* index of the step the iteration is working on
LastStep == Len(current_trace.steps)

\* the planner answers: parse, complete the reasoning step, emit reasoning
LlmReturn ==
    /\ pc = "llm"
    /\ \E r \in Responses :
        LET p == parse_agent_response(r) IN
        /\ response' = r
        /\ action' = p.action
        /\ action_input' = p.action_input
        /\ current_trace' = [current_trace EXCEPT
                                !.steps[LastStep].reasoning = p.thought,
                                !.steps[LastStep].status = "completed"]
        /\ event_queue' = emit_event(event_queue,
                                     StreamEvent("reasoning", step_count, << p.thought >>))
    /\ pc' = "dispatch"
    /\ UNCHANGED summary_prompts
    /\ UNCHANGED plan_vars
    /\ UNCHANGED react_prompts
    /\ UNCHANGED << services, max_steps, execution_results, step_count, observations,
                    pending, returned, caught, runs, run_base, planner_calls, http_log,
                    events_log, ui_status >>

\* bug: the handler reports the error but leaves the trace status alone
HandleExceptionKeepStatus(text) ==
    /\ current_trace' = [current_trace EXCEPT !.error = << text >>]
    /\ event_queue' = emit_event(event_queue,
                                 StreamEvent("error", step_count, << "Error: ", text >>))
    /\ caught' = text
    /\ pc' = "post"

\* the handler of "except Exception" around the loop
HandleException(text) ==
    /\ current_trace' = [current_trace EXCEPT !.status = "failed", !.error = << text >>]
    /\ event_queue' = emit_event(event_queue,
                                 StreamEvent("error", step_count, << "Error: ", text >>))
    /\ caught' = text
    /\ pc' = "post"

\* the planner call raises
LlmRaise ==
    /\ pc = "llm"
    /\ \E e \in LlmErrors : HandleException(e)
    /\ UNCHANGED summary_prompts
    /\ UNCHANGED plan_vars
    /\ UNCHANGED react_prompts
    /\ UNCHANGED << services, max_steps, execution_results, step_count, observations,
                    response, action, action_input, pending, returned, runs, run_base,
                    planner_calls, http_log, events_log, ui_status >>

\* lines 528-535: the action step, appended in progress
WithActionStep(trace) ==
    add_step(trace,
             [OrchestrationStep(step_count + 1, "action", "in_progress") EXCEPT
                 !.action_type = ActionTypeOf(action),
                 !.action = [type |-> action, input |-> action_input]])

\* bug: the final answer is read under the key of the action input
FinalAnswerWrongKey(res) == GetOrNone(res, "answer")

\* trace.final_answer = action_result.get("final_answer")
FinalAnswerOf(res) == GetOrNone(res, "final_answer")

\* bug: the observation is not added to the text of the next prompt
DropObservation(text, res) == text

\* observations += "\nObservation: " + json.dumps(action_result)
AppendObservation(text, res) == Append(text, res)

\* lines 539-568: complete the action step (the last step of trace), append the
\* observation step, emit observation, then break on FINAL_ANSWER or advance
FinishAction(trace, queue, res) ==
    LET n  == Len(trace.steps)
        t1 == [trace EXCEPT !.steps[n].result = res, !.steps[n].status = "completed"]
        t2 == add_step(t1, [OrchestrationStep(step_count + 2, "observation", "completed")
                               EXCEPT !.observation = res])
    IN  /\ event_queue' = emit_event(queue, StreamEvent("observation", step_count + 2,
                                                        << "Observation received" >>))
        /\ observations' = AppendObservation(observations, res)
        /\ IF action = "FINAL_ANSWER"
           THEN /\ current_trace' = [t2 EXCEPT !.final_answer = FinalAnswerOf(res),
                                               !.status = "completed"]
                /\ step_count' = step_count
                /\ pc' = "post"
           ELSE /\ current_trace' = t2
                /\ step_count' = AdvanceStepCount(step_count)
                /\ pc' = "while"

\* the dict _execute_action returns for an ExecutionResult
ResultDict(result) ==
    ActionResult([status |-> result.status, service |-> result.service_name,
                  data |-> result.data, error |-> result.error])

\* bug: the message does not name the service
NotFoundResultAnonymous(service_name) ==
    ActionResult([status |-> "error", error |-> << "Service not found" >>])

\* the error observation for a service name the registry does not hold
NotFoundResult(service_name) ==
    ActionResult([status |-> "error",
                  error |-> << "Service '", service_name, "' not found" >>])

\* bug: an unknown label is answered as a success
UnknownActionResultSuccess(label) ==
    ActionResult([status |-> "success", error |-> << "Unknown action: ", label >>])

\* the error observation for an action label _execute_action does not know
UnknownActionResult(label) ==
    ActionResult([status |-> "error", error |-> << "Unknown action: ", label >>])

\* self.execution_results[service_name] = result
Record(results, service_name, result) == (service_name :> result) @@ results

\* the else branch of "if action": the response had no action
ParseFailure ==
    /\ pc = "dispatch"
    /\ ~Truthy(action)
    /\ current_trace' = [current_trace EXCEPT
                            !.steps[LastStep].status = "failed",
                            !.status = "failed",
                            !.error = << "Failed to parse agent response" >>]
    /\ event_queue' = emit_event(event_queue,
                                 StreamEvent("error", step_count,
                                             << "Failed to parse agent response" >>))
    /\ pc' = "post"
    /\ UNCHANGED summary_prompts
    /\ UNCHANGED plan_vars
    /\ UNCHANGED react_prompts
    /\ UNCHANGED << services, max_steps, execution_results, step_count, observations,
                    response, action, action_input, pending, returned, caught, runs, run_base,
                    planner_calls, http_log, events_log, ui_status >>

\* EXECUTE_SERVICE up to the HTTP request, or to its result when none is sent
DispatchExecuteService ==
    /\ pc = "dispatch"
    /\ action = "EXECUTE_SERVICE"
    /\ LET service_name == GetOrNone(action_input.obj, "service_name")
           params == action_input.obj.params
           trace == WithActionStep(current_trace)
           queue == emit_event(event_queue,
                               StreamEvent("action", step_count + 1,
                                           << "Executing service: ", service_name >>))
           service == get_service_by_name(services, service_name)
       IN  IF get_service_by_name_raises(services, service_name)
           THEN /\ FinishAction(trace, queue,
                                ActionResult([status |-> "error",
                                              error |-> << "'NoneType' object has no attribute 'lower'" >>]))
                /\ UNCHANGED << services, execution_results, pending, http_log >>
           ELSE IF service = NoService
           THEN /\ FinishAction(trace, queue, NotFoundResult(service_name))
                /\ UNCHANGED << services, execution_results, pending, http_log >>
           ELSE IF get_service(services, service.id).http_type \notin SupportedVerbs
           THEN /\ services' = ExecuteServiceHeaders(services, service.id)
                /\ execution_results' = Record(execution_results, service_name,
                                                unsupported_result(service))
                /\ FinishAction(trace, queue, ResultDict(unsupported_result(service)))
                /\ UNCHANGED << pending, http_log >>
           ELSE /\ services' = ExecuteServiceHeaders(services, service.id)
                /\ pending' = get_service(services, service.id)
                /\ http_log' = Append(http_log,
                                      [call |-> planner_calls, service |-> service.id,
                                       verb |-> service.http_type,
                                       headers |-> RequestHeaders(service),
                                       params |-> params,
                                       via |-> RequestChannel(service),
                                       payload |-> RequestPayload(service, params),
                                       outcome |-> "pending", raised |-> FALSE])
                /\ current_trace' = trace
                /\ event_queue' = queue
                /\ pc' = "http"
                /\ UNCHANGED << execution_results, step_count, observations >>
    /\ UNCHANGED summary_prompts
    /\ UNCHANGED plan_vars
    /\ UNCHANGED react_prompts
    /\ UNCHANGED << max_steps, response, action, action_input, returned, caught,
                    runs, run_base, planner_calls, events_log, ui_status >>

\* lines 429-434: the dict _execute_action returns for an exception it caught
CaughtResult(text) == ActionResult([status |-> "error", error |-> text])

\* the HTTP request returns or raises: the rest of execute_service and of the
\* iteration; an exception that leaves execute_service is caught by
\* _execute_action before the result is recorded
HttpReturn ==
    /\ pc = "http"
    /\ \E outcome \in HttpOutcomes : \E cls \in DecodeClassesOf(outcome) :
        LET result == execute_service_result(pending, outcome)
            raises == execute_service_raises(pending, outcome, cls)
        IN
        /\ http_log' = [http_log EXCEPT ![Len(http_log)].outcome = outcome,
                                        ![Len(http_log)].raised = raises]
        /\ IF raises
           THEN /\ UNCHANGED execution_results
                /\ FinishAction(current_trace, event_queue,
                                CaughtResult(EscapedErrorText(outcome)))
           ELSE /\ execution_results' =
                     Record(execution_results,
                            GetOrNone(action_input.obj, "service_name"), result)
                /\ FinishAction(current_trace, event_queue, ResultDict(result))
    /\ pending' = NoService
    /\ UNCHANGED summary_prompts
    /\ UNCHANGED plan_vars
    /\ UNCHANGED react_prompts
    /\ UNCHANGED << services, max_steps, response, action, action_input, returned, caught,
                    runs, run_base, planner_calls, events_log, ui_status >>

\* bug: the observation does not carry the analysis text
AnalysisResultBlank(input) == ActionResult([status |-> "success", analysis |-> ""])

\* the dict _execute_action returns for ANALYZE_RESULT
AnalysisResult(input) ==
    ActionResult([status |-> "success", analysis |-> Get(input, "analysis", "")])

\* ANALYZE_RESULT
DispatchAnalyze ==
    /\ pc = "dispatch"
    /\ action = "ANALYZE_RESULT"
    /\ FinishAction(WithActionStep(current_trace),
                    emit_event(event_queue,
                               StreamEvent("action", step_count + 1,
                                           << "Analyzing results" >>)),
                    AnalysisResult(action_input.obj))
    /\ UNCHANGED summary_prompts
    /\ UNCHANGED plan_vars
    /\ UNCHANGED react_prompts
    /\ UNCHANGED << services, max_steps, execution_results, response, action,
                    action_input, pending, returned, caught, runs, run_base, planner_calls,
                    http_log, events_log, ui_status >>

\* FINAL_ANSWER
DispatchFinalAnswer ==
    /\ pc = "dispatch"
    /\ action = "FINAL_ANSWER"
    /\ LET answer == Get(action_input.obj, "answer", "")
       IN  FinishAction(WithActionStep(current_trace),
                        emit_event(event_queue,
                                   StreamEvent("final_answer", step_count + 1, << answer >>)),
                        ActionResult([status |-> "success", final_answer |-> answer]))
    /\ UNCHANGED summary_prompts
    /\ UNCHANGED plan_vars
    /\ UNCHANGED react_prompts
    /\ UNCHANGED << services, max_steps, execution_results, response, action,
                    action_input, pending, returned, caught, runs, run_base, planner_calls,
                    http_log, events_log, ui_status >>

\* any other label
DispatchUnknown ==
    /\ pc = "dispatch"
    /\ Truthy(action)
    /\ action \notin {"EXECUTE_SERVICE", "ANALYZE_RESULT", "FINAL_ANSWER"}
    /\ FinishAction(WithActionStep(current_trace), event_queue, UnknownActionResult(action))
    /\ UNCHANGED summary_prompts
    /\ UNCHANGED plan_vars
    /\ UNCHANGED react_prompts
    /\ UNCHANGED << services, max_steps, execution_results, response, action,
                    action_input, pending, returned, caught, runs, run_base, planner_calls,
                    http_log, events_log, ui_status >>

-----------------------------------------------------------------------------
(* after the loop: summary, completion event, return *)

NoDataMessage == "No data was collected from services."
SummaryFallback == "Unable to generate summary. Raw data available in execution history."
SummaryTexts == {"summary text"}

\* the successful results _generate_summary collects
collected_data(results) ==
    { n \in DOMAIN results : results[n].status = "success" }

\* lines 440-450: the data embedded in the summary prompt
SummaryPrompt(results) == [n \in collected_data(results) |-> results[n].data]

\* bug: a run that ends without completing is marked failed
CompleteOrFail(trace, queue) ==
    /\ current_trace' = IF trace.status = "in_progress"
                         THEN [trace EXCEPT !.status = "failed",
                                            !.error = << "Maximum steps reached" >>]
                         ELSE trace
    /\ event_queue' = emit_event(queue,
                                 StreamEvent("step_completed", step_count,
                                             << "Orchestration complete" >>))
    /\ returned' = "trace"
    /\ pc' = "done"

\* lines 609-619: the completion event and the return
Complete(trace, queue) ==
    /\ current_trace' = trace
    /\ event_queue' = emit_event(queue,
                                 StreamEvent("step_completed", step_count,
                                             << "Orchestration complete" >>))
    /\ returned' = "trace"
    /\ pc' = "done"

\* bug: the completion event is emitted before the summary event
WithSummaryLate(queue, summary) ==
    /\ current_trace' = [current_trace EXCEPT !.summary = summary]
    /\ event_queue' = emit_event(emit_event(queue,
                                            StreamEvent("step_completed", step_count,
                                                        << "Orchestration complete" >>)),
                                 StreamEvent("summary", step_count + 1, << summary >>))
    /\ returned' = "trace"
    /\ pc' = "done"

\* lines 600-607 followed by the completion
WithSummary(queue, summary) ==
    Complete([current_trace EXCEPT !.summary = summary],
             emit_event(queue, StreamEvent("summary", step_count + 1, << summary >>)))

\* bug: every completed run is summarized
SummarizesCompleted(trace, results) == trace.status = "completed"

\* line 591: if self.current_trace.status == "completed" and self.execution_results
Summarizes(trace, results) == trace.status = "completed" /\ DOMAIN results # {}

\* lines 591-599, up to the summary LLM call when there is one
AfterLoop ==
    /\ pc = "post"
    /\ IF Summarizes(current_trace, execution_results)
       THEN LET queue == emit_event(event_queue,
                                    StreamEvent("step_started", step_count + 1,
                                                << "Generating AI summary..." >>))
            IN  IF collected_data(execution_results) = {}
                THEN /\ WithSummary(queue, NoDataMessage)
                     /\ UNCHANGED summary_prompts
                ELSE /\ event_queue' = queue
                     /\ summary_prompts' = Append(summary_prompts,
                                                  SummaryPrompt(execution_results))
                     /\ pc' = "summary_llm"
                     /\ UNCHANGED << current_trace, returned >>
       ELSE /\ Complete(current_trace, event_queue)
            /\ UNCHANGED summary_prompts
    /\ UNCHANGED plan_vars
    /\ UNCHANGED react_prompts
    /\ UNCHANGED << caught, services, max_steps, execution_results, step_count, observations,
                    response, action, action_input, pending, runs, run_base,
                    planner_calls, http_log, events_log, ui_status >>

\* the summary LLM call returns
SummaryReturn ==
    /\ pc = "summary_llm"
    /\ \E text \in SummaryTexts : WithSummary(event_queue, text)
    /\ UNCHANGED summary_prompts
    /\ UNCHANGED plan_vars
    /\ UNCHANGED react_prompts
    /\ UNCHANGED << caught, services, max_steps, execution_results, step_count, observations,
                    response, action, action_input, pending, runs, run_base,
                    planner_calls, http_log, events_log, ui_status >>

\* the summary LLM call raises: _generate_summary returns its fallback
SummaryRaise ==
    /\ pc = "summary_llm"
    /\ WithSummary(event_queue, SummaryFallback)
    /\ UNCHANGED summary_prompts
    /\ UNCHANGED plan_vars
    /\ UNCHANGED react_prompts
    /\ UNCHANGED << caught, services, max_steps, execution_results, step_count, observations,
                    response, action, action_input, pending, runs, run_base,
                    planner_calls, http_log, events_log, ui_status >>

\* what iterating the value returned by process_prompt_streaming yields: the
\* function has no yield, it returns an OrchestrationTrace, which is not iterable
IterateReturned(value, queue) == << >>

\* render_streaming_executor: "for event in process_prompt_streaming(...)"
UiIterate ==
    /\ pc = "done"
    /\ ui_status = "calling"
    /\ events_log' = events_log \o IterateReturned(returned, RunEvents)
    /\ ui_status' = "error"
    /\ UNCHANGED summary_prompts
    /\ UNCHANGED plan_vars
    /\ UNCHANGED react_prompts
    /\ UNCHANGED << services, max_steps, current_trace, execution_results, event_queue,
                    step_count, observations, response, action, action_input, pending,
                    pc, returned, caught, runs, run_base, planner_calls, http_log >>

-----------------------------------------------------------------------------
(* The batch plan executor: execution_node and execute_rest_api *)

\* ApiDefinition: input_schema is the set of the input names it declares
TradeApi ==
    [name |-> "trade_api", url |-> "https://bank/trades", method |-> "get",
     input_schema |-> {"trade_id"}]
PatchApi ==
    [name |-> "patch_api", url |-> "https://bank/patch", method |-> "PATCH",
     input_schema |-> {"trade_id"}]
CancelApi ==
    [name |-> "trade_api", url |-> "https://bank/trades", method |-> "DELETE",
     input_schema |-> {"trade_id"}]

NoApi == [name |-> None, url |-> None, method |-> None, input_schema |-> {}]

ApiRegistries ==
    { ("trade_api" :> TradeApi) @@ ("patch_api" :> PatchApi), ("patch_api" :> PatchApi),
      ("trade_api" :> CancelApi) }

\* ApiRegistry.get_api_by_name: dict.get(name)
get_api_by_name(registry, name) ==
    IF name \in DOMAIN registry THEN registry[name] ELSE NoApi

\* str.upper() on the verbs the model uses
UpperVerb(m) ==
    CASE m = "get" -> "GET"
      [] m = "post" -> "POST"
      [] OTHER -> m

\* a source string, as the list source.split("_")
SrcConstant == << "constant" >>
SrcUserQuery == << "user", "query" >>
SrcStep(n) == << "step", n >>
SrcOther == << "previous" >>

\* source.startswith("step_")
StartsWithStep(source) == Len(source) >= 2 /\ source[1] = "step"

\* int(text): defined on digit strings, ValueError otherwise
IntDefined(text) == text \in {"0", "1", "2", "3"}

IntOf(text) ==
    CASE text = "0" -> 0
      [] text = "1" -> 1
      [] text = "2" -> 2
      [] text = "3" -> 3

\* one entry of a step's "inputs": a {value, source} dict, or a bare literal
ParamInfo(value, source) == [is_dict |-> TRUE, value |-> value, source |-> source]
Literal(value) == [is_dict |-> FALSE, value |-> value, source |-> NoText]

PlanStep(n, api, inputs) == [step |-> n, api_name |-> api, inputs |-> inputs]

PlanSteps ==
    { PlanStep(1, "trade_api", [trade_id |-> ParamInfo(JStr("T-1"), SrcConstant)]),
      PlanStep(2, "trade_api", [trade_id |-> ParamInfo(JStr("fallback"), SrcStep("1"))]),
      PlanStep(1, "ghost_api", [trade_id |-> ParamInfo(JStr("T-2"), SrcUserQuery)]),
      PlanStep(3, "trade_api", [trade_id |-> ParamInfo(JNull, SrcStep("2")),
                                account  |-> Literal(JStr("A-9"))]),
      PlanStep(2, "patch_api", [trade_id |-> ParamInfo(JStr("later"), SrcStep("3"))]),
      PlanStep(2, "trade_api", [trade_id |-> ParamInfo(JStr("T-3"), SrcOther)]),
      PlanStep(3, "trade_api", [trade_id |-> ParamInfo(JStr("T-4"), SrcStep("one"))]) }

\* the plans of at most MaxPlanLen steps
Plans == UNION { [1..n -> PlanSteps] : n \in 0..MaxPlanLen }

\* resolving one input raises (int() of a non-number)
resolve_raises(info) ==
    /\ info.is_dict
    /\ info.source \notin {SrcConstant, SrcUserQuery}
    /\ StartsWithStep(info.source)
    /\ ~IntDefined(info.source[2])

\* bug: the whole stored result is substituted, not its data
PriorOutputResult(outputs, n) == outputs[n]

\* the prior output substituted for a step_N source
PriorOutput(outputs, n) == outputs[n].data

\* lines 570-589: the value resolved for one input
resolve_input(info, outputs) ==
    IF ~info.is_dict THEN info.value
    ELSE IF info.source = SrcConstant \/ info.source = SrcUserQuery THEN info.value
    ELSE IF StartsWithStep(info.source)
         THEN IF IntOf(info.source[2]) \in DOMAIN outputs
              THEN PriorOutput(outputs, IntOf(info.source[2]))
              ELSE info.value
    ELSE info.value

\* lines 379-386: execute_rest_api passes resolved_inputs as params= for GET
\* and as json= for POST, PUT and DELETE
ApiRequestChannel(method) == IF method = "GET" THEN "query" ELSE "body"

ApiRequestPayload(method, inputs) == inputs

\* outcomes of one request of execute_rest_api
ApiOutcomes == {"ok", "not_json", "timeout", "connection", "http_error", "invalid_url"}

\* response.text of a body that is not JSON
ResponseText == "<html>Bad gateway</html>"

NoApiResult == [success |-> Absent, data |-> JNull, error |-> NoText, error_type |-> Absent]

ApiResult(f) == f @@ NoApiResult

\* execute_rest_api after the request returned or raised; the inner handler
\* catches json.JSONDecodeError, the last one everything else
execute_rest_api_result(outcome, cls) ==
    CASE outcome = "ok" ->
            ApiResult([success |-> "True", data |-> JObj(ResponseBody)])
      [] outcome = "not_json" /\ cls # "requests_simplejson" ->
            ApiResult([success |-> "True", data |-> JStr(ResponseText)])
      [] outcome = "not_json" /\ cls = "requests_simplejson" ->
            ApiResult([success |-> "False",
                       error |-> << "Unexpected error: ", RequestErrorText(outcome)[1] >>,
                       error_type |-> "unknown"])
      [] outcome = "invalid_url" ->
            ApiResult([success |-> "False",
                       error |-> << "Unexpected error: ", RequestErrorText(outcome)[1] >>,
                       error_type |-> "unknown"])
      [] outcome = "timeout" ->
            ApiResult([success |-> "False", error |-> << "Request timeout" >>,
                       error_type |-> "timeout"])
      [] outcome = "connection" ->
            ApiResult([success |-> "False",
                       error |-> << "Connection error - could not reach API endpoint" >>,
                       error_type |-> "connection"])
      [] outcome = "http_error" ->
            ApiResult([success |-> "False", error |-> << "HTTP error: ", "500 Server Error" >>,
                       error_type |-> "http"])

\* execute_rest_api for a verb it does not support: no request is sent
unsupported_api_result(method) ==
    ApiResult([error |-> << "Unsupported HTTP method: ", method >>])

\* the entry execution_node appends for a step whose API is not registered
MissingApiEntry(step) ==
    [step |-> step.step, api_name |-> step.api_name, called |-> FALSE,
     inputs |-> EmptyDict]
    @@ ApiResult([success |-> "False",
                  error |-> << "API '", step.api_name, "' not found in registry" >>])

\* the entry execution_node appends after execute_rest_api
ExecutionEntry(step, inputs, result) ==
    [step |-> step.step, api_name |-> step.api_name, called |-> TRUE, inputs |-> inputs]
    @@ result

\* bug: the output of a failed step is stored too
StoreOutputAlways(outputs, step, result) == (step.step :> result) @@ outputs

\* if result.get("success"): step_outputs[step_num] = result
StoreOutput(outputs, step, result) ==
    IF result.success = "True" THEN (step.step :> result) @@ outputs ELSE outputs

\* the plan sorted by step number, equal numbers in plan order
SortedByStep(p) ==
    LET perm == CHOOSE f \in [1..Len(p) -> 1..Len(p)] :
                    /\ \A i, j \in 1..Len(p) : i # j => f[i] # f[j]
                    /\ \A i, j \in 1..Len(p) :
                          i < j => \/ p[f[i]].step < p[f[j]].step
                                   \/ p[f[i]].step = p[f[j]].step /\ f[i] < f[j]
    IN  [i \in 1..Len(p) |-> p[perm[i]]]

\* bug: the executor walks the plan in step-number order
StepAtSorted(p, i) == SortedByStep(p)[i]

\* "for step in plan": the step processed at position i
StepAt(p, i) == p[i]

-----------------------------------------------------------------------------
(* planning_node: the planner's text and the plan parsed from it *)

Undecodable == [kind |-> "undecodable"]

\* a planner text: the raw text, the positions find('{') and rfind('}') report
\* (-1 when there is none), what json.loads makes of the span between them and
\* of the whole text, and what it makes of the first balanced {...} span
PlannerText(raw, open, close, span, whole, balanced) ==
    [raw |-> raw, open |-> open, close |-> close, span |-> span, whole |-> whole,
     balanced |-> balanced]

PlanObject(p) == JObj([reasoning |-> "r", plan |-> p])

EmptyText == PlannerText("", -1, -1, Undecodable, Undecodable, Undecodable)

PlannerReplies ==
    { PlannerText("{\"reasoning\": \"r\", \"plan\": [...]}", 0, 29,
                  PlanObject(p), PlanObject(p), PlanObject(p)) : p \in Plans }
    \cup
    { PlannerText("Here is the plan: {\"reasoning\": \"r\", \"plan\": []} Done.", 18, 47,
                  PlanObject(<< >>), Undecodable, PlanObject(<< >>)),
      PlannerText("{\"reasoning\": \"r\"}", 0, 17,
                  JObj([reasoning |-> "r"]), JObj([reasoning |-> "r"]),
                  JObj([reasoning |-> "r"])),
      EmptyText,
      PlannerText("I cannot plan this.", -1, -1, Undecodable, Undecodable, Undecodable),
      PlannerText("[1, 2]", -1, -1, Undecodable, JList(<< JNum(1), JNum(2) >>), Undecodable),
      PlannerText("null", -1, -1, Undecodable, JNull, Undecodable),
      PlannerText("{\"plan\": [", 0, -1, Undecodable, Undecodable, Undecodable),
      PlannerText("} {", 2, 0, Undecodable, Undecodable, Undecodable),
      PlannerText("{\"plan\": []} or {}", 0, 17, Undecodable, Undecodable,
                  JObj([plan |-> << >>])) }

\* llm_chat: what the caller receives when the client answers with a text or
\* raises
llm_chat(reply, raised) == IF raised THEN EmptyText ELSE reply

\* lines 508-515: the value planning_node hands to .get
parsed_plan(text) ==
    LET json_start == text.open
        json_end == text.close + 1
    IN  IF json_start >= 0 /\ json_end > json_start THEN text.span ELSE text.whole

\* str(e) of the AttributeError raised by parsed_plan.get
NoGetText(value) ==
    CASE value.kind = "list" -> "'list' object has no attribute 'get'"
      [] value.kind = "null" -> "'NoneType' object has no attribute 'get'"
      [] OTHER -> "object has no attribute 'get'"

\* lines 505-531: the plan, the reasoning and the error planning_node stores
planning_result(text) ==
    LET parsed == parsed_plan(text) IN
    IF parsed = Undecodable
    THEN [plan |-> << >>, plan_reasoning |-> text.raw,
          error |-> << "Failed to parse LLM planning response as JSON: ",
                       "Expecting value" >>]
    ELSE IF parsed.kind # "obj"
    THEN [plan |-> << >>, plan_reasoning |-> "",
          error |-> << "Planning error: ", NoGetText(parsed) >>]
    ELSE [plan |-> IF "plan" \in DOMAIN parsed.val THEN parsed.val.plan ELSE << >>,
          plan_reasoning |->
              IF "reasoning" \in DOMAIN parsed.val THEN parsed.val.reasoning ELSE "",
          error |-> NoText]

AgentIdle ==
    /\ services = << >>
    /\ max_steps = 0
    /\ current_trace = NoTrace
    /\ execution_results = EmptyDict
    /\ event_queue = << >>
    /\ step_count = 0
    /\ observations = << >>
    /\ response = NoResponse
    /\ action = None
    /\ action_input = NoneInput
    /\ pending = NoService
    /\ pc = "off"
    /\ returned = None
    /\ caught = None
    /\ runs = 0
    /\ run_base = 0
    /\ planner_calls = 0
    /\ http_log = << >>
    /\ summary_prompts = << >>
    /\ react_prompts = << >>
    /\ events_log = << >>
    /\ ui_status = "idle"

\* the api-selector session before a plan is asked for: lines 850-858
PlanInit ==
    /\ AgentIdle
    /\ apis \in ApiRegistries
    /\ plan = << >>
    /\ node_results = << >>
    /\ step_outputs = EmptyDict
    /\ resolved_inputs = EmptyDict
    /\ plan_idx = 0
    /\ plan_pc = "planning"
    /\ plan_http = << >>
    /\ state = InitialState
    /\ llm_log = << >>
    /\ op_log = << >>

\* "Generate Plan": planning_node as a whole
PlanningNode ==
    /\ plan_pc = "planning"
    /\ \E reply \in PlannerReplies : \E raised \in BOOLEAN :
        LET llm_response == llm_chat(reply, raised)
            result == planning_result(llm_response)
        IN  /\ llm_log' = Append(llm_log, [node |-> "planning", raised |-> raised,
                                           reply |-> llm_response, context |-> << >>])
            /\ plan' = result.plan
            /\ state' = [state EXCEPT !.plan_reasoning = result.plan_reasoning,
                                      !.error = result.error]
    /\ plan_pc' = "planned"
    /\ UNCHANGED << apis, node_results, step_outputs, resolved_inputs, plan_idx, plan_http,
                    op_log >>
    /\ UNCHANGED agent_vars

\* "Execute Plan" with a plan at hand: execution_node is entered, lines 544-548
ExecutePlan ==
    /\ plan_pc = "planned"
    /\ state.error = NoText
    /\ plan # << >>
    /\ plan_idx' = 1
    /\ plan_pc' = "step"
    /\ UNCHANGED << apis, plan, node_results, step_outputs, resolved_inputs, plan_http,
                    state, llm_log, op_log >>
    /\ UNCHANGED agent_vars

\* a step whose API is not in the registry: error entry, continue
StepMissingApi ==
    /\ plan_pc = "step"
    /\ plan_idx <= Len(plan)
    /\ get_api_by_name(apis, StepAt(plan, plan_idx).api_name) = NoApi
    /\ node_results' = Append(node_results, MissingApiEntry(StepAt(plan, plan_idx)))
    /\ plan_idx' = plan_idx + 1
    /\ UNCHANGED << apis, plan, step_outputs, resolved_inputs, plan_pc, plan_http >>
    /\ UNCHANGED << state, llm_log, op_log >>
    /\ UNCHANGED agent_vars

\* a step whose API is registered: resolve the inputs, then enter execute_rest_api
StepResolve ==
    /\ plan_pc = "step"
    /\ plan_idx <= Len(plan)
    /\ LET step == StepAt(plan, plan_idx)
           api_def == get_api_by_name(apis, step.api_name)
           inputs == [k \in DOMAIN step.inputs |-> resolve_input(step.inputs[k], step_outputs)]
       IN  /\ api_def # NoApi
           /\ IF \E k \in DOMAIN step.inputs : resolve_raises(step.inputs[k])
              THEN /\ plan_pc' = "raised"
                   /\ UNCHANGED << node_results, step_outputs, resolved_inputs, plan_idx,
                                   plan_http >>
              ELSE IF UpperVerb(api_def.method) \notin SupportedVerbs
              THEN /\ node_results' =
                        Append(node_results,
                               ExecutionEntry(step, inputs,
                                              unsupported_api_result(UpperVerb(api_def.method))))
                   /\ step_outputs' =
                        StoreOutput(step_outputs, step,
                                    unsupported_api_result(UpperVerb(api_def.method)))
                   /\ resolved_inputs' = inputs
                   /\ plan_idx' = plan_idx + 1
                   /\ UNCHANGED << plan_pc, plan_http >>
              ELSE /\ resolved_inputs' = inputs
                   /\ plan_http' = Append(plan_http,
                                          [pos |-> plan_idx, api |-> api_def.name,
                                           verb |-> UpperVerb(api_def.method),
                                           params |-> inputs,
                                           via |-> ApiRequestChannel(UpperVerb(api_def.method)),
                                           payload |->
                                               ApiRequestPayload(UpperVerb(api_def.method),
                                                                 inputs),
                                           outcome |-> "pending"])
                   /\ plan_pc' = "http"
                   /\ UNCHANGED << node_results, step_outputs, plan_idx >>
    /\ UNCHANGED << apis, plan >>
    /\ UNCHANGED << state, llm_log, op_log >>
    /\ UNCHANGED agent_vars

\* the request returns or raises: the entry is appended, a success is stored
StepHttpReturn ==
    /\ plan_pc = "http"
    /\ \E outcome \in ApiOutcomes : \E cls \in DecodeClassesOf(outcome) :
        LET result == execute_rest_api_result(outcome, cls) IN
        /\ node_results' = Append(node_results,
                                  ExecutionEntry(StepAt(plan, plan_idx), resolved_inputs, result))
        /\ step_outputs' = StoreOutput(step_outputs, StepAt(plan, plan_idx), result)
        /\ plan_http' = [plan_http EXCEPT ![Len(plan_http)].outcome = outcome]
    /\ plan_idx' = plan_idx + 1
    /\ plan_pc' = "step"
    /\ UNCHANGED << apis, plan, resolved_inputs >>
    /\ UNCHANGED << state, llm_log, op_log >>
    /\ UNCHANGED agent_vars

\* the for loop is over: state["execution_results"] = execution_results
PlanReturn ==
    /\ plan_pc = "step"
    /\ plan_idx > Len(plan)
    /\ plan_pc' = "done"
    /\ UNCHANGED << apis, plan, node_results, step_outputs, resolved_inputs, plan_idx,
                    plan_http >>
    /\ UNCHANGED << state, llm_log, op_log >>
    /\ UNCHANGED agent_vars

\* the text the summarizing LLM call answers with
SummaryReply ==
    PlannerText("The trades are settled.", -1, -1, Undecodable, Undecodable, Undecodable)

\* lines 629-637: what the prompt shows of one execution result
ContextEntry(result) ==
    [step |-> result.step, api_name |-> result.api_name,
     shows |-> IF result.success = "True" THEN "Response" ELSE "Error"]

\* lines 628-639: the context built from the execution results
results_context(results) == [i \in 1..Len(results) |-> ContextEntry(results[i])]

\* summarization_node as a whole
SummarizationNode ==
    /\ plan_pc = "done"
    /\ \E raised \in BOOLEAN :
        LET summary == llm_chat(SummaryReply, raised) IN
        /\ llm_log' = Append(llm_log, [node |-> "summarization", raised |-> raised,
                                       reply |-> summary,
                                       context |-> results_context(node_results)])
        /\ state' = [state EXCEPT !.final_summary = summary.raw]
    /\ plan_pc' = "end"
    /\ UNCHANGED << apis, plan, node_results, step_outputs, resolved_inputs, plan_idx,
                    plan_http, op_log >>
    /\ UNCHANGED agent_vars

-----------------------------------------------------------------------------
(* The registries as their callers operate them *)

\* a second configuration under the id of UserService, and one under another
\* id whose name differs from UserService's in letter case only
AccountsService ==
    [id |-> "user_service", name |-> "Accounts", http_type |-> "POST",
     input_params |-> {"id"}, output_params |-> {},
     headers |-> NoHeaders, auth_token |-> None]

ShoutingService ==
    [id |-> "user_copy", name |-> "USER SERVICE", http_type |-> "GET",
     input_params |-> {"id"}, output_params |-> {"id"},
     headers |-> NoHeaders, auth_token |-> None]

ServiceConfigs == {UserService, AccountsService, LegacyService, ShoutingService}
ServiceIds == {"user_service", "legacy_service", "user_copy", "ghost_service"}
ServiceNames == {"User Service", "USER SERVICE", "Legacy", "Ghost"}

\* position of the entry stored under service_id, 0 when there is none
IndexOfId(svcs, service_id) ==
    IF \E i \in 1..Len(svcs) : svcs[i].id = service_id
    THEN CHOOSE i \in 1..Len(svcs) : svcs[i].id = service_id
    ELSE 0

\* bug: the configuration is appended whether or not its id is taken
add_service_append(svcs, config) == Append(svcs, config)

\* ServiceManager.add_service: self.services[config.id] = config
add_service(svcs, config) ==
    IF IndexOfId(svcs, config.id) = 0
    THEN Append(svcs, config)
    ELSE [svcs EXCEPT ![IndexOfId(svcs, config.id)] = config]

\* bug: nothing is deleted
remove_service_keep(svcs, service_id) == svcs

\* ServiceManager.remove_service: del self.services[service_id] when present
remove_service(svcs, service_id) ==
    LET k == IndexOfId(svcs, service_id) IN
    IF k = 0 THEN svcs
    ELSE [i \in 1..(Len(svcs) - 1) |-> IF i < k THEN svcs[i] ELSE svcs[i + 1]]

\* what remove_service returns: the method has no return statement
remove_service_returns(svcs, service_id) == None

\* ServiceManager.list_services
list_services(svcs) == svcs

\* a second definition under the name of TradeApi
TradeApiV2 ==
    [name |-> "trade_api", url |-> "https://bank/v2/trades", method |-> "post",
     input_schema |-> {"trade_id"}]

ApiDefinitions == {TradeApi, TradeApiV2, PatchApi}
ApiNames == {"trade_api", "TRADE_API", "patch_api", "ghost_api"}

\* ApiRegistry.add_api: self.apis[api_def.name] = api_def
add_api(registry, api_def) == (api_def.name :> api_def) @@ registry

\* ApiRegistry.remove_api, the registry it leaves
remove_api(registry, name) == [k \in (DOMAIN registry) \ {name} |-> registry[k]]

\* ApiRegistry.remove_api, the value it returns
remove_api_returns(registry, name) == IF name \in DOMAIN registry THEN "True" ELSE "False"

\* ApiRegistry.list_apis
list_apis(registry) == { registry[k] : k \in DOMAIN registry }

\* one entry of op_log
Op(op, key, config, before, after, ret, found) ==
    [op |-> op, key |-> key, config |-> config, before |-> before, after |-> after,
     ret |-> ret, found |-> found]

\* a session of the ReAct application in which the registry is operated
\* and no prompt is run
ServiceSidebarInit ==
    /\ services \in Registries
    /\ max_steps = 0
    /\ current_trace = NoTrace
    /\ execution_results = EmptyDict
    /\ event_queue = << >>
    /\ step_count = 0
    /\ observations = << >>
    /\ response = NoResponse
    /\ action = None
    /\ action_input = NoneInput
    /\ pending = NoService
    /\ pc = "sidebar"
    /\ returned = None
    /\ caught = None
    /\ runs = 0
    /\ run_base = 0
    /\ planner_calls = 0
    /\ http_log = << >>
    /\ summary_prompts = << >>
    /\ react_prompts = << >>
    /\ events_log = << >>
    /\ ui_status = "idle"
    /\ PlanIdle

\* a caller adds a configuration: service_manager.add_service(config)
AddService ==
    /\ pc = "sidebar"
    /\ Len(op_log) < MaxOps
    /\ \E config \in ServiceConfigs :
        /\ services' = add_service(services, config)
        /\ op_log' = Append(op_log,
                            Op("add_service", config.id, config, services,
                               add_service(services, config), None, NoService))
    /\ UNCHANGED service_op_frame

\* a caller removes an id: service_manager.remove_service(service_id)
RemoveService ==
    /\ pc = "sidebar"
    /\ Len(op_log) < MaxOps
    /\ \E service_id \in ServiceIds :
        /\ services' = remove_service(services, service_id)
        /\ op_log' = Append(op_log,
                            Op("remove_service", service_id, NoService, services,
                               remove_service(services, service_id),
                               remove_service_returns(services, service_id), NoService))
    /\ UNCHANGED service_op_frame

\* service_manager.get_service_by_name(name)
GetServiceByName ==
    /\ pc = "sidebar"
    /\ Len(op_log) < MaxOps
    /\ \E name \in ServiceNames :
        op_log' = Append(op_log,
                         Op("get_service_by_name", name, NoService, services, services,
                            None, get_service_by_name(services, name)))
    /\ UNCHANGED services
    /\ UNCHANGED service_op_frame

\* a session of the api-selector application in which the registry is
\* operated and no plan is asked for
ApiSidebarInit ==
    /\ AgentIdle
    /\ apis \in ApiRegistries
    /\ plan = << >>
    /\ node_results = << >>
    /\ step_outputs = EmptyDict
    /\ resolved_inputs = EmptyDict
    /\ plan_idx = 0
    /\ plan_pc = "sidebar"
    /\ plan_http = << >>
    /\ state = InitialState
    /\ llm_log = << >>
    /\ op_log = << >>

\* a caller adds a definition: registry.add_api(api_def)
AddApi ==
    /\ plan_pc = "sidebar"
    /\ Len(op_log) < MaxOps
    /\ \E api_def \in ApiDefinitions :
        /\ apis' = add_api(apis, api_def)
        /\ op_log' = Append(op_log,
                            Op("add_api", api_def.name, api_def, apis,
                               add_api(apis, api_def), None, NoApi))
    /\ UNCHANGED api_op_frame
    /\ UNCHANGED agent_vars

\* registry.remove_api(name)
RemoveApi ==
    /\ plan_pc = "sidebar"
    /\ Len(op_log) < MaxOps
    /\ \E name \in ApiNames :
        /\ apis' = remove_api(apis, name)
        /\ op_log' = Append(op_log,
                            Op("remove_api", name, NoApi, apis, remove_api(apis, name),
                               remove_api_returns(apis, name), NoApi))
    /\ UNCHANGED api_op_frame
    /\ UNCHANGED agent_vars

\* registry.get_api_by_name(name)
GetApiByName ==
    /\ plan_pc = "sidebar"
    /\ Len(op_log) < MaxOps
    /\ \E name \in ApiNames :
        op_log' = Append(op_log,
                         Op("get_api_by_name", name, NoApi, apis, apis, None,
                            get_api_by_name(apis, name)))
    /\ UNCHANGED apis
    /\ UNCHANGED api_op_frame
    /\ UNCHANGED agent_vars

\* what the path given to load_from_json may hold: no file, a file that is
\* not JSON, a JSON array, a JSON object listing the API definitions
RegistryFiles ==
    { [kind |-> "missing", apis |-> << >>],
      [kind |-> "malformed", apis |-> << >>],
      [kind |-> "array", apis |-> << >>],
      [kind |-> "object", apis |-> << >>],
      [kind |-> "object", apis |-> << TradeApiV2 >>] }

\* ApiRegistry.load_from_json: the registry after the call; self.apis is
\* emptied once the file has been read and decoded
load_from_json(registry, file) ==
    CASE file.kind = "missing" -> registry
      [] file.kind = "malformed" -> registry
      [] file.kind = "array" -> EmptyDict
      [] file.kind = "object" ->
            [name \in { file.apis[i].name : i \in 1..Len(file.apis) } |->
                file.apis[CHOOSE i \in 1..Len(file.apis) :
                             /\ file.apis[i].name = name
                             /\ \A j \in (i + 1)..Len(file.apis) : file.apis[j].name # name]]

\* load_from_json reports an error with st.error
load_from_json_reports(file) == file.kind \in {"malformed", "array"}

\* registry.load_from_json(path)
LoadApis ==
    /\ plan_pc = "sidebar"
    /\ Len(op_log) < MaxOps
    /\ \E file \in RegistryFiles :
        /\ apis' = load_from_json(apis, file)
        /\ op_log' = Append(op_log,
                            Op("load_from_json", file.kind, NoApi, apis,
                               load_from_json(apis, file),
                               IF load_from_json_reports(file) THEN "error" ELSE None,
                               NoApi))
    /\ UNCHANGED api_op_frame
    /\ UNCHANGED agent_vars

-----------------------------------------------------------------------------
(* The system: a session runs the ReAct agent or the plan executor, or it
   operates the registry of one of the two applications *)

Init == AgentInit \/ PlanInit \/ ServiceSidebarInit \/ ApiSidebarInit

Next ==
    \/ BeginRun
    \/ IterStart
    \/ LoopExit
    \/ LlmReturn
    \/ LlmRaise
    \/ ParseFailure
    \/ DispatchExecuteService
    \/ HttpReturn
    \/ DispatchAnalyze
    \/ DispatchFinalAnswer
    \/ DispatchUnknown
    \/ AfterLoop
    \/ SummaryReturn
    \/ SummaryRaise
    \/ UiIterate
    \/ PlanningNode
    \/ ExecutePlan
    \/ StepMissingApi
    \/ StepResolve
    \/ StepHttpReturn
    \/ PlanReturn
    \/ SummarizationNode
    \/ AddService
    \/ RemoveService
    \/ GetServiceByName
    \/ AddApi
    \/ RemoveApi
    \/ GetApiByName
    \/ LoadApis

Spec == Init /\ [][Next]_vars

\* a step of process_prompt_streaming once it was called: the interpreter
\* goes on, and each LLM call and each HTTP call returns or raises
RunStep ==
    \/ IterStart
    \/ LoopExit
    \/ LlmReturn
    \/ LlmRaise
    \/ ParseFailure
    \/ DispatchExecuteService
    \/ HttpReturn
    \/ DispatchAnalyze
    \/ DispatchFinalAnswer
    \/ DispatchUnknown
    \/ AfterLoop
    \/ SummaryReturn
    \/ SummaryRaise

\* a step of execution_node once it was entered
WalkStep ==
    \/ StepMissingApi
    \/ StepResolve
    \/ StepHttpReturn
    \/ PlanReturn

\* the sessions under the assumption that a call under way is carried on;
\* what the user does next (a new run, a registry operation) is not assumed
LiveSpec == Spec /\ WF_vars(RunStep) /\ WF_vars(WalkStep)

-----------------------------------------------------------------------------
(* Properties *)

Contains(msg, piece) == \E i \in 1..Len(msg) : msg[i] = piece

EventIndices(type) == { i \in 1..Len(RunEvents) : RunEvents[i].event_type = type }

Steps == current_trace.steps

\* the planner call (1, 2, ...) that produced the step at index k of the trace
IterationOf(k) == (k + 2) \div 3

\* C1: in any run, the number of reasoning/action/observation triples emitted
\* never exceeds the step budget max_steps.
C1_StepBudget ==
    /\ Cardinality(EventIndices("observation")) <= max_steps
    /\ Cardinality({ k \in 1..Len(Steps) : Steps[k].step_type = "observation" }) <= max_steps

C1_Witness ==
    /\ pc = "done"
    /\ Cardinality(EventIndices("observation")) >= 2
    /\ ~(step_count < max_steps)

\* C2: the step numbers of the steps held by the trace are strictly increasing
\* in append order, so no step number occurs twice.
C2_StepNumbersIncrease ==
    \A i, j \in 1..Len(Steps) : i < j => Steps[i].step_number < Steps[j].step_number

C2_Witness ==
    /\ Len(Steps) >= 6
    /\ Steps[4].step_type = "reasoning"

\* C3: once the planner's action is FINAL_ANSWER, the run makes no further
\* planner call, and when the action has been executed the trace is completed
\* and its final answer is the answer text of the action input.
C3_FinalAnswerEndsRun ==
    action = "FINAL_ANSWER" =>
        /\ pc \in {"dispatch", "post", "summary_llm", "done"}
        /\ pc # "dispatch" =>
              /\ current_trace.status = "completed"
              /\ current_trace.final_answer = Get(action_input.obj, "answer", "")
              /\ planner_calls = IterationOf(Len(Steps))

C3_Witness ==
    /\ pc = "done"
    /\ action = "FINAL_ANSWER"
    /\ current_trace.final_answer = "42"
    /\ step_count + 2 < max_steps

\* C4: when the planner's response yields no parsed action, the run makes no
\* further planner call, and after the failure branch the trace is failed with
\* an error, an error event was emitted, the iteration has no action or
\* observation step and issued no HTTP request.
C4_ParseFailureEndsRun ==
    (response # NoResponse /\ ~(action # None /\ action # "")) =>
        /\ pc \in {"dispatch", "post", "done"}
        /\ pc # "dispatch" =>
              /\ current_trace.status = "failed"
              /\ current_trace.error # NoText
              /\ EventIndices("error") # {}
              /\ Steps[Len(Steps)].step_type = "reasoning"
              /\ Steps[Len(Steps)].step_number = step_count
              /\ \A h \in 1..Len(http_log) : http_log[h].call < planner_calls
              /\ planner_calls = IterationOf(Len(Steps))

C4_Witness ==
    /\ pc = "done"
    /\ response # NoResponse
    /\ action = ""
    /\ Len(Steps) = 4

\* a name no registered service has, whatever the letter case
MissingName(name) ==
    /\ name # None
    /\ \A i \in 1..Len(services) : Lower(services[i].name) # Lower(name)

\* the action step at index k executed EXECUTE_SERVICE on a missing service
MissingServiceStep(k) ==
    /\ Steps[k].step_type = "action"
    /\ Steps[k].status = "completed"
    /\ Steps[k].action.type = "EXECUTE_SERVICE"
    /\ MissingName(GetOrNone(Steps[k].action.input.obj, "service_name"))

\* the step at the executor's position has an input whose step_ source has no number
MalformedSourceAt(i) ==
    \E k \in DOMAIN plan[i].inputs :
        /\ plan[i].inputs[k].is_dict
        /\ StartsWithStep(plan[i].inputs[k].source)
        /\ ~IntDefined(plan[i].inputs[k].source[2])

\* C5: a plan step or an EXECUTE_SERVICE action naming a service that is not
\* registered issues no HTTP request, yields an error whose message contains
\* the requested name, and does not stop the plan walk or the loop.
C5_MissingService ==
    /\ \A k \in 1..Len(Steps) :
          MissingServiceStep(k) =>
              /\ Steps[k].result.status = "error"
              /\ Contains(Steps[k].result.error,
                          GetOrNone(Steps[k].action.input.obj, "service_name"))
              /\ Steps[k + 1].observation = Steps[k].result
              /\ \A h \in 1..Len(http_log) : http_log[h].call # IterationOf(k)
              /\ k + 1 = Len(Steps) =>
                    \/ pc = "while"
                    \/ /\ pc \in {"post", "done"}
                       /\ ~(step_count < max_steps)
                       /\ current_trace.status = "in_progress"
                       /\ current_trace.error = NoText
    /\ \A i \in 1..Len(node_results) :
          plan[i].api_name \notin DOMAIN apis =>
              /\ node_results[i].success = "False"
              /\ Contains(node_results[i].error, plan[i].api_name)
              /\ \A h \in 1..Len(plan_http) : plan_http[h].pos # i
              /\ plan_idx > i
    /\ plan_pc = "done" => Len(node_results) = Len(plan)
    /\ plan_pc = "raised" => plan[plan_idx].api_name \in DOMAIN apis

C5_Witness ==
    /\ Len(services) > 0
    /\ Len(Steps) >= 5
    /\ MissingServiceStep(2)
    /\ Steps[5].status = "completed"

\* no step numbered n, earlier in the walk than position i, recorded a success
NoEarlierSuccess(i, n) ==
    \A j \in 1..(i - 1) : ~(plan[j].step = n /\ node_results[j].success = "True")

\* the input k of plan position i has a step_N source
StepSourced(i, k) ==
    /\ plan[i].inputs[k].is_dict
    /\ StartsWithStep(plan[i].inputs[k].source)
    /\ IntDefined(plan[i].inputs[k].source[2])

\* C6: an input with a step_N source for which no earlier-executed step N
\* recorded a success resolves to exactly the literal value of the plan
\* (possibly null), and resolving such an input never raises.
C6_FallbackToLiteral ==
    /\ \A i \in 1..Len(node_results) :
          node_results[i].called =>
              \A k \in DOMAIN plan[i].inputs :
                  (StepSourced(i, k) /\ NoEarlierSuccess(i, IntOf(plan[i].inputs[k].source[2])))
                      => node_results[i].inputs[k] = plan[i].inputs[k].value
    /\ plan_pc = "raised" => MalformedSourceAt(plan_idx)

C6_Witness ==
    /\ plan_pc = "done"
    /\ \E i \in 1..Len(node_results) :
          /\ node_results[i].called
          /\ \E k \in DOMAIN plan[i].inputs :
                /\ StepSourced(i, k)
                /\ plan[i].inputs[k].value = JNull
                /\ node_results[i].inputs[k] = JNull
                /\ \E j \in 1..(i - 1) :
                      /\ plan[j].step = IntOf(plan[i].inputs[k].source[2])
                      /\ node_results[j].called
                      /\ node_results[j].success = "False"

\* C7: the executor processes the plan steps in plan order, not in step-number
\* order, and produces exactly one result entry per plan step in that order,
\* whichever steps fail.
C7_PlanOrder ==
    /\ Len(node_results) <= Len(plan)
    /\ \A i \in 1..Len(node_results) :
          /\ node_results[i].step = plan[i].step
          /\ node_results[i].api_name = plan[i].api_name
          /\ node_results[i].called = (plan[i].api_name \in DOMAIN apis)
    /\ \A g, h \in 1..Len(plan_http) : g < h => plan_http[g].pos < plan_http[h].pos
    /\ plan_pc = "done" => Len(node_results) = Len(plan)
    /\ plan_pc = "raised" => MalformedSourceAt(plan_idx)

C7_Witness ==
    /\ plan_pc = "done"
    /\ Len(plan) = 2
    /\ plan[1].step > plan[2].step
    /\ node_results[1].success = "False"
    /\ node_results[2].success = "True"

\* C8: every run emits exactly one step_completed event, as its last event,
\* however it ends.
C8_OneCompletionEvent ==
    /\ pc = "done" =>
          /\ Cardinality(EventIndices("step_completed")) = 1
          /\ RunEvents[Len(RunEvents)].event_type = "step_completed"
    /\ pc # "done" => EventIndices("step_completed") = {}

C8_Witness ==
    /\ pc = "done"
    /\ current_trace.summary = "summary text"
    /\ EventIndices("summary") # {}

\* C9: every event emitted during a run is delivered to the consumer iterating
\* process_prompt_streaming, once and in emission order.
C9_EventsDelivered ==
    (pc = "done" /\ ui_status # "calling") => events_log = RunEvents

\* C10: an exception raised inside the loop is not propagated: the trace is
\* failed, its error is the exception text, an error event precedes the final
\* step_completed event, and the trace is returned.
C10_ExceptionCaptured ==
    caught # None =>
        /\ pc \in {"post", "done"}
        /\ current_trace.status = "failed"
        /\ current_trace.error = << caught >>
        /\ \E i \in EventIndices("error") : Contains(RunEvents[i].content, caught)
        /\ pc = "done" =>
              /\ returned = "trace"
              /\ \E i \in EventIndices("error") :
                    \E j \in EventIndices("step_completed") : i < j

C10_Witness ==
    /\ pc = "done"
    /\ caught = "rate limit exceeded"
    /\ Len(Steps) = 4

\* index in the trace of the action step of planner call c
ActionStepOf(c) == 3 * c - 1

\* C11: service invocation never raises to its caller: every request that has
\* ended, whatever its outcome, left a result value built by the invoker, and
\* that result has error status whenever the invocation failed.
C11_InvocationNeverRaises ==
    /\ \A h \in 1..Len(http_log) :
          http_log[h].outcome # "pending" =>
              /\ ~http_log[h].raised
              /\ Steps[ActionStepOf(http_log[h].call)].result.service # Absent
              /\ http_log[h].outcome \notin OkOutcomes =>
                    Steps[ActionStepOf(http_log[h].call)].result.status = "error"
    /\ \A g \in 1..Len(plan_http) :
          plan_http[g].outcome \notin {"pending", "ok", "not_json"} =>
              /\ node_results[plan_http[g].pos].called
              /\ node_results[plan_http[g].pos].success = "False"
              /\ node_results[plan_http[g].pos].error # NoText

\* out holds exactly the keys of inp that the service declares, values unchanged
IsProjection(service, inp, out) ==
    /\ DOMAIN out = { k \in DOMAIN inp : k \in service.output_params }
    /\ \A k \in DOMAIN out : out[k] = inp[k]

\* C12: for a service with a non-empty declared output set and a successful
\* response, an object body yields exactly its declared keys with their values
\* unchanged, an array body yields the same projection of each element in the
\* same order and number, and declared keys the response lacks are omitted.
C12_Projection ==
    \A h \in 1..Len(http_log) :
        LET service == get_service(services, http_log[h].service)
            body == ResponseJson(http_log[h].outcome)
            data == Steps[ActionStepOf(http_log[h].call)].result.data
        IN  (/\ http_log[h].outcome \in OkOutcomes
             /\ ~http_log[h].raised
             /\ service.output_params # {}) =>
                /\ Steps[ActionStepOf(http_log[h].call)].result.status = "success"
                /\ body.kind = "obj" =>
                      /\ data.kind = "obj"
                      /\ IsProjection(service, body.val, data.val)
                /\ body.kind = "list" =>
                      /\ data.kind = "list"
                      /\ Len(data.items) = Len(body.items)
                      /\ \A i \in 1..Len(body.items) :
                            IsProjection(service, body.items[i].val, data.items[i].val)

C12_Witness ==
    /\ pc = "done"
    /\ \E h \in 1..Len(http_log) :
          /\ http_log[h].outcome = "ok_list"
          /\ get_service(services, http_log[h].service).output_params = {"id", "name"}
          /\ Steps[ActionStepOf(http_log[h].call)].result.data =
                JList(<< JObj([id |-> 1, name |-> "Ann"]), JObj([id |-> 2]) >>)

\* the text holds no {...} span that json.loads accepts
NoParsableSpan(text) == text.span = Undecodable /\ text.balanced = Undecodable

\* C13: for every planner output without a parsable {...} span, the empty
\* output of a failed LLM call included, planning_node returns with an empty
\* plan and a planning error, and the state keeps the raw text of the output.
C13_PlanningError ==
    (Len(llm_log) >= 1 /\ llm_log[1].node = "planning") =>
        (NoParsableSpan(llm_log[1].reply) =>
            /\ plan = << >>
            /\ state.error # NoText
            /\ state.plan_reasoning = llm_log[1].reply.raw)

\* C14: the summarizer uses only the results with status success, and when
\* the run has no successful result it returns the fixed no-data message
\* without calling the LLM.
C14_SummaryOfSuccesses ==
    /\ \A i \in 1..Len(summary_prompts) :
          /\ DOMAIN summary_prompts[i] # {}
          /\ \A n \in DOMAIN summary_prompts[i] :
                /\ execution_results[n].status = "success"
                /\ summary_prompts[i][n] = execution_results[n].data
    /\ (/\ current_trace.summary # None
        /\ \A n \in DOMAIN execution_results : execution_results[n].status # "success") =>
          /\ current_trace.summary = NoDataMessage
          /\ summary_prompts = << >>
    /\ \A c \in 1..Len(llm_log) :
          llm_log[c].node = "summarization" =>
              /\ \A e \in 1..Len(llm_log[c].context) : llm_log[c].context[e].shows = "Response"
              /\ \E i \in 1..Len(node_results) : node_results[i].success = "True"
    /\ (/\ plan_pc = "end"
        /\ \A i \in 1..Len(node_results) : node_results[i].success # "True") =>
          state.final_summary = NoDataMessage

\* C15: whenever a run ends with trace status completed, the trace has a
\* non-null final answer or a non-null summary.
C15_CompletedHasAnswer ==
    (pc = "done" /\ current_trace.status = "completed") =>
        \/ current_trace.final_answer # None
        \/ current_trace.summary # None

\* C16: adding a descriptor x and then removing x's key yields a registry in
\* which x is not listed and the lookup of x's key finds nothing, while the
\* entries under all other keys are those of the registry before the add.
C16_AddThenRemove ==
    \A i \in 1..(Len(op_log) - 1) :
        /\ (/\ op_log[i].op = "add_service"
            /\ op_log[i + 1].op = "remove_service"
            /\ op_log[i + 1].key = op_log[i].config.id) =>
              LET x == op_log[i].config
                  after == op_log[i + 1].after
              IN  /\ \A k \in 1..Len(list_services(after)) :
                        /\ list_services(after)[k] # x
                        /\ list_services(after)[k].id # x.id
                  /\ get_service(after, x.id) = NoService
                  /\ \A id \in ServiceIds \ {x.id} :
                        get_service(after, id) = get_service(op_log[i].before, id)
        /\ (/\ op_log[i].op = "add_api"
            /\ op_log[i + 1].op = "remove_api"
            /\ op_log[i + 1].key = op_log[i].config.name) =>
              LET x == op_log[i].config
                  after == op_log[i + 1].after
              IN  /\ x \notin list_apis(after)
                  /\ get_api_by_name(after, x.name) = NoApi
                  /\ \A name \in ApiNames \ {x.name} :
                        get_api_by_name(after, name) =
                            get_api_by_name(op_log[i].before, name)

C16_Witness ==
    /\ Len(op_log) = 2
    /\ op_log[1].op = "add_service"
    /\ op_log[1].config = AccountsService
    /\ op_log[1].before = << UserService, LegacyService >>
    /\ op_log[2].op = "remove_service"
    /\ op_log[2].key = "user_service"
    /\ services = << LegacyService >>

\* C17: lookup by name is case-insensitive in both registries: two names
\* that are equal up to letter case, looked up in the same registry, give the
\* same descriptor, or not-found both.
C17_CaseInsensitiveLookup ==
    \A i, j \in 1..Len(op_log) :
        /\ (/\ op_log[i].op = "get_service_by_name"
            /\ op_log[j].op = "get_service_by_name"
            /\ op_log[i].before = op_log[j].before
            /\ Lower(op_log[i].key) = Lower(op_log[j].key)) =>
              op_log[i].found = op_log[j].found
        /\ (/\ op_log[i].op = "get_api_by_name"
            /\ op_log[j].op = "get_api_by_name"
            /\ op_log[i].before = op_log[j].before
            /\ Lower(op_log[i].key) = Lower(op_log[j].key)) =>
              op_log[i].found = op_log[j].found

\* C18: add is an upsert: afterwards the lookup of the descriptor's key gives
\* the descriptor; the size is unchanged when the key was taken and one more
\* otherwise; the entries under all other keys are unchanged.
C18_AddIsUpsert ==
    \A i \in 1..Len(op_log) :
        /\ op_log[i].op = "add_service" =>
              LET d == op_log[i].config
                  before == op_log[i].before
                  after == op_log[i].after
              IN  /\ get_service(after, d.id) = d
                  /\ Len(list_services(after)) =
                        IF get_service(before, d.id) # NoService
                        THEN Len(list_services(before))
                        ELSE Len(list_services(before)) + 1
                  /\ \A id \in ServiceIds \ {d.id} :
                        get_service(after, id) = get_service(before, id)
        /\ op_log[i].op = "add_api" =>
              LET d == op_log[i].config
                  before == op_log[i].before
                  after == op_log[i].after
              IN  /\ get_api_by_name(after, d.name) = d
                  /\ Cardinality(list_apis(after)) =
                        IF get_api_by_name(before, d.name) # NoApi
                        THEN Cardinality(list_apis(before))
                        ELSE Cardinality(list_apis(before)) + 1
                  /\ \A name \in ApiNames \ {d.name} :
                        get_api_by_name(after, name) = get_api_by_name(before, name)

C18_Witness ==
    /\ Len(op_log) = 2
    /\ op_log[1].op = "add_api"
    /\ op_log[1].config = TradeApi
    /\ "trade_api" \notin DOMAIN op_log[1].before
    /\ op_log[2].op = "add_api"
    /\ op_log[2].config = TradeApiV2
    /\ apis = ("trade_api" :> TradeApiV2) @@ ("patch_api" :> PatchApi)

\* C19: removing a key that is absent leaves the registry unchanged, and
\* remove returns true exactly when an entry was removed, false otherwise.
C19_RemoveReports ==
    \A i \in 1..Len(op_log) :
        /\ op_log[i].op = "remove_service" =>
              /\ get_service(op_log[i].before, op_log[i].key) = NoService =>
                    op_log[i].after = op_log[i].before
              /\ op_log[i].ret =
                    IF get_service(op_log[i].before, op_log[i].key) # NoService
                    THEN "True" ELSE "False"
        /\ op_log[i].op = "remove_api" =>
              /\ get_api_by_name(op_log[i].before, op_log[i].key) = NoApi =>
                    op_log[i].after = op_log[i].before
              /\ op_log[i].ret =
                    IF get_api_by_name(op_log[i].before, op_log[i].key) # NoApi
                    THEN "True" ELSE "False"

ErrorKinds == {"timeout", "connection", "http", "unsupported"}

\* the kind a failed result of execute_rest_api carries: its error_type, or
\* for the verb branch, which sets none, the kind its message states
ErrorKind(result) ==
    IF result.error_type # Absent THEN result.error_type
    ELSE IF result.error # NoText /\ result.error[1] = "Unsupported HTTP method: "
         THEN "unsupported"
         ELSE Absent

\* C20: every failed invocation is classified as one of the four kinds
\* timeout, connection failure, HTTP error, unsupported verb, and yields a
\* result with error status and a message; a request that times out yields an
\* error result of kind timeout.
C20_FourErrorKinds ==
    /\ \A i \in 1..Len(node_results) :
          (node_results[i].called /\ node_results[i].success # "True") =>
              /\ ErrorKind(node_results[i]) \in ErrorKinds
              /\ node_results[i].error # NoText
    /\ \A g \in 1..Len(plan_http) :
          plan_http[g].outcome = "timeout" =>
              /\ node_results[plan_http[g].pos].success = "False"
              /\ node_results[plan_http[g].pos].error_type = "timeout"
    /\ \A h \in 1..Len(http_log) :
          (http_log[h].outcome \notin OkOutcomes \cup {"pending"}) =>
              /\ Steps[ActionStepOf(http_log[h].call)].result.status = "error"
              /\ Steps[ActionStepOf(http_log[h].call)].result.error # NoText

-----------------------------------------------------------------------------
(* C21: each run owns its own trace, execution-result map and event stream: *)
(* nothing written by an earlier run of the agent is in the trace, the      *)
(* result map or the event stream of the run under way.  The agent has one  *)
(* event_queue, created by __init__ and never emptied, so the stream of a   *)
(* second run starts with the events of the first.                          *)

C21_RunsIsolated ==
    (pc \notin {"off", "sidebar", "idle"}) =>
        /\ SubSeq(event_queue, 1, run_base) = << >>
        /\ (pc = "while" /\ step_count = 0) =>
               /\ current_trace.steps = << >>
               /\ execution_results = EmptyDict

-----------------------------------------------------------------------------
(* C22: a label other than EXECUTE_SERVICE, ANALYZE_RESULT and FINAL_ANSWER *)
(* gives an observation with error status, invokes no service, does not set *)
(* the trace status to failed, and the loop goes on to its next test of the *)
(* step budget.                                                             *)

KnownLabels == {"EXECUTE_SERVICE", "ANALYZE_RESULT", "FINAL_ANSWER"}

OtherLabel == pc = "dispatch" /\ Truthy(action) /\ action \notin KnownLabels

C22_UnknownAction ==
    [][ OtherLabel =>
          /\ Len(current_trace'.steps) = Len(current_trace.steps) + 2
          /\ current_trace'.steps[Len(current_trace.steps) + 1].result.status = "error"
          /\ current_trace'.steps[Len(current_trace.steps) + 2].step_type = "observation"
          /\ current_trace'.steps[Len(current_trace.steps) + 2].observation.status = "error"
          /\ Contains(current_trace'.steps[Len(current_trace.steps) + 2].observation.error,
                      action)
          /\ event_queue'[Len(event_queue')].event_type = "observation"
          /\ http_log' = http_log
          /\ pending' = NoService
          /\ execution_results' = execution_results
          /\ current_trace'.status = "in_progress"
          /\ current_trace'.error = NoText
          /\ step_count' = step_count + 2
          /\ pc' = "while" ]_vars

\* the run went on after an unknown label: the next iteration's planner call
\* was made
C22_Witness ==
    /\ pc = "llm"
    /\ Len(current_trace.steps) = 4
    /\ current_trace.steps[2].action.type = "reboot"
    /\ current_trace.steps[3].observation.status = "error"
    /\ current_trace.status = "in_progress"
    /\ http_log = << >>

-----------------------------------------------------------------------------
(* C23: action labels are matched case-insensitively, hyphens read as       *)
(* underscores: a label that differs from one of the three labels only by   *)
(* letter case or by hyphen is dispatched as that label is.  _execute_action *)
(* compares the label as written, so such a label is answered as unknown.   *)

C23_LabelsNormalized ==
    \A k \in 1..Len(current_trace.steps) :
        LET st == current_trace.steps[k] IN
        (/\ st.step_type = "action"
         /\ st.status = "completed"
         /\ UpperUnderscore(st.action.type) \in KnownLabels)
        => ~Contains(st.result.error, "Unknown action: ")

-----------------------------------------------------------------------------
(* C24: an input with source step_N is replaced by prior output only when a *)
(* step numbered N was executed earlier in the same walk and succeeded, and *)
(* then by the entire data of that step's result; results of failed         *)
(* invocations are never retained.                                          *)

\* the last position before i whose step is numbered n and succeeded
EarlierSuccess(i, n) ==
    { j \in 1..(i - 1) : /\ plan[j].step = n
                         /\ node_results[j].success = "True"
                         /\ \A h \in (j + 1)..(i - 1) :
                               ~(plan[h].step = n /\ node_results[h].success = "True") }

C24_PriorOutput ==
    /\ \A i \in 1..Len(node_results) :
          node_results[i].called =>
              \A k \in DOMAIN plan[i].inputs :
                  StepSourced(i, k) =>
                      LET n == IntOf(plan[i].inputs[k].source[2]) IN
                      /\ \A j \in EarlierSuccess(i, n) :
                            node_results[i].inputs[k] = node_results[j].data
                      /\ node_results[i].inputs[k] # plan[i].inputs[k].value
                            => EarlierSuccess(i, n) # {}
    /\ \A n \in DOMAIN step_outputs :
          /\ step_outputs[n].success = "True"
          /\ \E j \in EarlierSuccess(Len(node_results) + 1, n) :
                step_outputs[n].data = node_results[j].data
    /\ \A j \in 1..Len(node_results) :
          node_results[j].success # "True" =>
              \/ plan[j].step \notin DOMAIN step_outputs
              \/ EarlierSuccess(Len(node_results) + 1, plan[j].step) # {}

\* step 1 succeeded and the step_1 input of the next step is its whole data
C24_Witness ==
    /\ plan_pc = "done"
    /\ Len(plan) = 2
    /\ plan[1].step = 1
    /\ node_results[1].success = "True"
    /\ node_results[1].data = JObj(ResponseBody)
    /\ plan[2].inputs.trade_id.source = SrcStep("1")
    /\ node_results[2].called
    /\ node_results[2].inputs.trade_id = JObj(ResponseBody)
    /\ node_results[2].inputs.trade_id # plan[2].inputs.trade_id.value

-----------------------------------------------------------------------------
(* C25: invoking a service never changes the registry: after the invocation *)
(* every registered descriptor, its headers map included, equals what it    *)
(* was before.  execute_service writes the Authorization header into the    *)
(* headers dict of the descriptor when that dict is not empty.              *)

C25_InvocationKeepsRegistry ==
    [][ (pc \in {"dispatch", "http"}) => (services' = services) ]_vars

-----------------------------------------------------------------------------
(* C26: both invokers route the parameter map by verb: a GET sends only the *)
(* parameters whose names are declared inputs, as a query string; POST and  *)
(* PUT send the full map as the body; DELETE sends no parameters in the     *)
(* body.  execute_rest_api sends every resolved input on a GET and sends    *)
(* the resolved inputs as the body of a DELETE.                             *)

RoutedByVerb(verb, via, payload, params, declared) ==
    CASE verb = "GET" ->
            /\ via = "query"
            /\ payload = [k \in (DOMAIN params) \cap declared |-> params[k]]
      [] verb \in {"POST", "PUT"} -> via = "body" /\ payload = params
      [] verb = "DELETE" -> via # "body"
      [] OTHER -> FALSE

C26_RoutedByVerb ==
    /\ \A i \in 1..Len(http_log) :
          RoutedByVerb(http_log[i].verb, http_log[i].via, http_log[i].payload,
                       http_log[i].params,
                       get_service(services, http_log[i].service).input_params)
    /\ \A i \in 1..Len(plan_http) :
          RoutedByVerb(plan_http[i].verb, plan_http[i].via, plan_http[i].payload,
                       plan_http[i].params,
                       apis[plan_http[i].api].input_schema)

-----------------------------------------------------------------------------
(* C27: in every iteration the events come in the order step_started,       *)
(* reasoning, then, when an action was parsed, the action's own event if it *)
(* emits one (action or final_answer) and exactly one observation event;    *)
(* one planner call is made per iteration, after step_started and before    *)
(* reasoning; and the observation of every dispatched action is in the      *)
(* context given to every later planner call of the run.                    *)

\* the events of the loop iterations: not those of the summary, the
\* completion or an error
IsIterationEvent(e) ==
    \/ e.event_type \in {"reasoning", "action", "final_answer", "observation"}
    \/ e.event_type = "step_started" /\ e.content = << "thinking" >>

IterationEvents == SelectSeq(RunEvents, IsIterationEvent)

\* the event types that may follow an event of the given type
FollowersOf(type) ==
    CASE type = "step_started" -> {"reasoning"}
      [] type = "reasoning" -> {"action", "final_answer", "observation"}
      [] type \in {"action", "final_answer"} -> {"observation"}
      [] type = "observation" -> {"step_started"}

\* the event an action label emits before its observation, None when it emits none
OwnEventOf(label) ==
    CASE label \in {"EXECUTE_SERVICE", "ANALYZE_RESULT"} -> "action"
      [] label = "FINAL_ANSWER" -> "final_answer"
      [] OTHER -> None

\* the observations of the dispatched actions of the planner calls before call c
ObservationsBefore(c) == [j \in 1..(c - 1) |-> Steps[3 * j].observation]

-----------------------------------------------------------------------------
(* C28: once the status of a step is completed or failed, no field of the   *)
(* step, its status included, changes again for the rest of the run.  The   *)
(* reasoning step is marked completed when the planner has answered and is  *)
(* marked failed afterwards when the answer holds no action.                *)

C28_FinishedStepsFrozen ==
    [][ (runs' = runs) =>
          \A k \in 1..Len(current_trace.steps) :
              (current_trace.steps[k].status \in {"completed", "failed"}) =>
                  /\ k <= Len(current_trace'.steps)
                  /\ current_trace'.steps[k] = current_trace.steps[k] ]_vars

-----------------------------------------------------------------------------
(* C29: when the loop stops because the step budget is used up, the run     *)
(* ends as a stop without error and without final answer: the trace's error *)
(* is null, no error event is emitted, the final answer is null and the     *)
(* trace status is not failed.                                              *)

\* the loop was left by its while condition: not by the break after
\* FINAL_ANSWER, not by the break of a parse failure, not by an exception
BudgetStop ==
    /\ pc \in {"post", "summary_llm", "done"}
    /\ caught = None
    /\ \/ Steps = << >>
       \/ /\ Steps[Len(Steps)].step_type = "observation"
          /\ Steps[Len(Steps) - 1].action.type # "FINAL_ANSWER"

C29_BudgetStop ==
    BudgetStop =>
        /\ ~LoopGuard(step_count, max_steps)
        /\ current_trace.error = NoText
        /\ EventIndices("error") = {}
        /\ current_trace.final_answer = None
        /\ current_trace.status = "in_progress"
        /\ pc # "summary_llm"
        /\ pc = "done" =>
              /\ returned = "trace"
              /\ RunEvents[Len(RunEvents)].event_type = "step_completed"

\* two iterations used the budget up and the run returned
C29_Witness ==
    /\ BudgetStop
    /\ pc = "done"
    /\ Len(Steps) = 6
    /\ max_steps = 4
    /\ Steps[5].action.type = "ANALYZE_RESULT"
    /\ current_trace.status = "in_progress"

-----------------------------------------------------------------------------
(* C30: an ANALYZE_RESULT action makes no HTTP call and leaves the registry *)
(* and the execution-result map of the run unchanged; its observation has   *)
(* status success and carries the analysis text of the action input.        *)

C30_AnalyzeResult ==
    [][ (pc = "dispatch" /\ action = "ANALYZE_RESULT") =>
          /\ http_log' = http_log
          /\ pending' = NoService
          /\ pc' # "http"
          /\ services' = services
          /\ execution_results' = execution_results
          /\ Len(current_trace'.steps) = Len(current_trace.steps) + 2
          /\ current_trace'.steps[Len(current_trace'.steps)].step_type = "observation"
          /\ current_trace'.steps[Len(current_trace'.steps)].observation.status = "success"
          /\ current_trace'.steps[Len(current_trace'.steps)].observation.analysis
                = Get(action_input.obj, "analysis", "")
          /\ observations'[Len(observations')].analysis
                = Get(action_input.obj, "analysis", "") ]_vars

\* an analysis was dispatched after a service call had recorded a result
C30_Witness ==
    /\ Len(Steps) = 6
    /\ Steps[2].action.type = "EXECUTE_SERVICE"
    /\ Steps[5].action.type = "ANALYZE_RESULT"
    /\ Steps[6].observation.status = "success"
    /\ Steps[6].observation.analysis = "looks fine"
    /\ DOMAIN execution_results # {}
    /\ Len(http_log) = 1

-----------------------------------------------------------------------------
(* C31: the planner parses the first balanced {...} span of the raw output: *)
(* for an output made of prose, one valid JSON plan object and further      *)
(* prose, which may hold braces, the plan is the plan of that object and no *)
(* planning error is reported.  planning_node takes the text from the first *)
(* opening brace to the last closing brace instead.                         *)

C31_FirstBalancedSpan ==
    (Len(llm_log) >= 1 /\ llm_log[1].node = "planning" /\ ~llm_log[1].raised) =>
        LET object == llm_log[1].reply.balanced IN
        (object.kind = "obj" /\ "plan" \in DOMAIN object.val) =>
            /\ state.error = NoText
            /\ plan = object.val.plan

-----------------------------------------------------------------------------
(* C32: when the LLM call made for summarization fails, the summarizer      *)
(* returns a fixed fallback message instead of propagating the failure, and *)
(* the run finishes with its status as it was.  In the plan executor        *)
(* llm_chat swallows the failure and returns the empty text, which          *)
(* summarization_node stores as the summary.                                *)

C32_SummaryFallback ==
    /\ (pc = "done" /\ summary_prompts # << >>) =>
          /\ current_trace.summary \in SummaryTexts \cup {SummaryFallback}
          /\ current_trace.status = "completed"
          /\ returned = "trace"
    /\ \A i \in 1..Len(llm_log) :
          (llm_log[i].node = "summarization" /\ llm_log[i].raised) =>
              /\ plan_pc = "end"
              /\ state.final_summary # ""

-----------------------------------------------------------------------------
(* C33: loading the registry from a path where no file exists reports no    *)
(* error and yields an empty registry, whatever the registry held before.   *)
(* load_from_json empties the registry only after the file has been opened  *)
(* and decoded, so with no file the registry keeps what it held.            *)

C33_MissingFileEmpties ==
    \A i \in 1..Len(op_log) :
        (op_log[i].op = "load_from_json" /\ op_log[i].key = "missing") =>
            /\ op_log[i].ret = None
            /\ op_log[i].after = EmptyDict

-----------------------------------------------------------------------------
(* C34: the trace of a run never holds more than max_steps steps, and no    *)
(* step of the trace and no event of the run carries a step number greater  *)
(* than max_steps.  The budget is tested once per iteration, before the     *)
(* reasoning step; the action and observation steps that follow are         *)
(* numbered step_count + 1 and step_count + 2.                              *)

C34_StepsWithinBudget ==
    (pc \notin {"off", "sidebar", "idle"}) =>
        /\ Len(Steps) <= max_steps
        /\ \A k \in 1..Len(Steps) : Steps[k].step_number <= max_steps
        /\ \A i \in 1..Len(RunEvents) : RunEvents[i].step_number <= max_steps

-----------------------------------------------------------------------------
(* C35: at the end of every run these three are equivalent: the trace       *)
(* status is failed; the trace's error is not null; at least one error      *)
(* event was emitted during the run.                                        *)

C35_FailureSignalsAgree ==
    (pc = "done") =>
        /\ (current_trace.status = "failed") <=> (current_trace.error # NoText)
        /\ (current_trace.status = "failed") <=> (EventIndices("error") # {})

\* a run ended by an exception of the planner call, after an action whose
\* observation was an error
C35_Witness ==
    /\ pc = "done"
    /\ current_trace.status = "failed"
    /\ current_trace.error # NoText
    /\ caught \in LlmErrors
    /\ Cardinality(EventIndices("error")) = 1
    /\ Len(Steps) = 4
    /\ Steps[3].observation.status = "error"

-----------------------------------------------------------------------------
(* C36: when a run has ended, every step of its trace has status completed  *)
(* or failed, whichever way the run ended.  When the planner call raises,   *)
(* the handler marks the trace failed and leaves the reasoning step of the  *)
(* iteration in progress.                                                   *)

C36_NoStepLeftOpen ==
    (pc = "done") =>
        \A k \in 1..Len(Steps) : Steps[k].status \in {"completed", "failed"}

-----------------------------------------------------------------------------
(* C37: after any sequence of EXECUTE_SERVICE actions the execution-result  *)
(* map holds, for each service name under which a registered service was    *)
(* invoked, exactly the result of the most recent invocation under that     *)
(* name.  An invocation that raises inside execute_service (C11) records    *)
(* nothing, so the map keeps the result of the invocation before it.        *)

NameOfStep(k) == GetOrNone(Steps[k].action.input.obj, "service_name")

\* the action step k invoked a registered service and has ended
InvokedAt(k) ==
    /\ Steps[k].step_type = "action"
    /\ Steps[k].status = "completed"
    /\ Steps[k].action.type = "EXECUTE_SERVICE"
    /\ ~get_service_by_name_raises(services, NameOfStep(k))
    /\ get_service_by_name(services, NameOfStep(k)) # NoService

C37_LatestResultKept ==
    (pc \notin {"off", "sidebar", "idle"}) =>
        \A k \in 1..Len(Steps) :
            (/\ InvokedAt(k)
             /\ \A h \in (k + 1)..Len(Steps) :
                   ~(InvokedAt(h) /\ NameOfStep(h) = NameOfStep(k))) =>
                /\ NameOfStep(k) \in DOMAIN execution_results
                /\ ResultDict(execution_results[NameOfStep(k)]) = Steps[k].result

-----------------------------------------------------------------------------
(* C38: a summary event is emitted in a run if and only if the run ended    *)
(* with status completed and at least one service invocation was recorded   *)
(* in it; the trace's summary is non-null exactly when a summary event was  *)
(* emitted; the summary event comes after the final_answer and observation  *)
(* events and before step_completed.                                        *)

C38_SummaryEvent ==
    /\ (pc \in {"while", "llm", "dispatch", "http", "post"}) =>
          /\ EventIndices("summary") = {}
          /\ current_trace.summary = None
    /\ (pc = "done") =>
          /\ (EventIndices("summary") # {})
                <=> (current_trace.status = "completed" /\ DOMAIN execution_results # {})
          /\ (current_trace.summary # None) <=> (EventIndices("summary") # {})
          /\ Cardinality(EventIndices("summary")) <= 1
          /\ \A i \in EventIndices("summary") :
                /\ RunEvents[i].content = << current_trace.summary >>
                /\ \A j \in EventIndices("final_answer") \cup EventIndices("observation") :
                      j < i
                /\ EventIndices("final_answer") # {}
                /\ \A j \in EventIndices("step_completed") : i < j
                /\ EventIndices("step_completed") # {}

\* a completed run with a recorded invocation and its summary event, and
\* none of its results a success
C38_Witness ==
    /\ pc = "done"
    /\ current_trace.status = "completed"
    /\ DOMAIN execution_results # {}
    /\ Cardinality(EventIndices("summary")) = 1
    /\ current_trace.summary = NoDataMessage
    /\ Len(RunEvents) = 11

-----------------------------------------------------------------------------
(* C39: within a run the step numbers carried by the emitted events are     *)
(* non-decreasing in emission order, from the first step_started to the     *)
(* final step_completed.  After the break of FINAL_ANSWER step_count is     *)
(* not advanced: the observation event carries step_count + 2, the summary  *)
(* events step_count + 1 and step_completed step_count.                     *)

C39_EventNumbersNonDecreasing ==
    (pc \notin {"off", "sidebar", "idle"}) =>
        \A i \in 1..(Len(RunEvents) - 1) :
            RunEvents[i].step_number <= RunEvents[i + 1].step_number

-----------------------------------------------------------------------------
(* C40: every run terminates: when each LLM call and each HTTP call returns *)
(* or raises, process_prompt_streaming reaches its return after at most     *)
(* ceil(max_steps / 3) loop iterations, whatever the planner answers, and   *)
(* the plan executor is over after a single pass over the plan: it returns, *)
(* and it is left by an exception only at a step whose input source is      *)
(* neither constant, user_query nor step_N with a number N.                 *)

\* ceil(n / 3)
CeilThird(n) == (n + 2) \div 3

InRun == pc \in {"while", "llm", "dispatch", "http", "post", "summary_llm"}

InWalk == plan_pc \in {"step", "http"}

C40_RunsTerminate ==
    /\ [](planner_calls <= CeilThird(max_steps))
    /\ InRun ~> (pc = "done" /\ returned = "trace")
    /\ [](InWalk => plan_idx <= Len(plan) + 1 /\ Len(node_results) = plan_idx - 1)
    /\ [][InWalk => plan_idx' \in {plan_idx, plan_idx + 1}]_vars
    /\ InWalk ~> (plan_pc \in {"done", "raised"})
    /\ [](plan_pc = "raised" =>
            /\ plan_idx <= Len(plan)
            /\ \E k \in DOMAIN StepAt(plan, plan_idx).inputs :
                   resolve_raises(StepAt(plan, plan_idx).inputs[k]))

\* a run that used its whole budget without a final answer and returned
C40_Witness ==
    /\ pc = "done"
    /\ returned = "trace"
    /\ max_steps = MaxBudget
    /\ planner_calls = CeilThird(max_steps)
    /\ Len(Steps) = 3 * planner_calls
    /\ Steps[Len(Steps) - 1].action.type = "reboot"

====
